---- MODULE Spec2Model ----
(***************************************************************************)
(* Elvis: time-stepped simulation of an electric-vehicle charging site.    *)
(*                                                                         *)
(* Representation                                                          *)
(*  - Powers (kW), energies (kWh), states of charge (a fraction of 1) and  *)
(*    step lengths (hours) are Python floats: IEEE 754 doubles with their  *)
(*    53 bit mantissa and round-half-to-even.  Every operation on them is  *)
(*    the operation on doubles, in the order in which the code applies it; *)
(*    a sum is formed in the order in which the code adds.                 *)
(*  - Times are integer ticks of one hour; time step i is i * resolution   *)
(*    and lasts resolution.total_seconds() / 3600 hours.                   *)
(*  - The list of charging events and the transformer preload list are     *)
(*    inputs; the charging events are drawn when the simulation reads      *)
(*    them.                                                                *)
(*  - Iteration order of a Python set is arbitrary: every place that       *)
(*    iterates or pops a set chooses its order nondeterministically.       *)
(***************************************************************************)
EXTENDS Integers, Sequences, FiniteSets, TLC

\* ------------------------------------------------------------------------
\* Bounds of the model
\* ------------------------------------------------------------------------

\* number of time steps of a full run (create_time_steps)
NumSteps == 20

\* number of time steps of a short run
ShortSteps == 6

\* first step at which charging events arrive
FirstArrivalStep == 17

\* number of charging events of a scenario
MaxEvents == 3

\* largest number of points of an interpolated distribution
MaxPoints == 3

\* largest distance between the x of two adjacent points
MaxDistance == 3

\* largest y of a point
MaxY == 2

\* largest number of weights of a Walker sampler
MaxWeights == 4

\* largest weight of a Walker sampler
MaxWeight == 3

\* largest times_charged of a state handed to sort_cps
MaxTimesCharged == 3

\* largest number of charging points in a state handed to sort_cps
MaxSorted == 3

\* the largest number of calls of charge and discharge on one battery
MaxBatteryCalls == 3

\* the largest number of time steps arrival weights are computed for
MaxArrivalSteps == 3

\* the largest factor of the weekly distributions
MaxSlope == 2

\* the number of time steps of a run of the storage
MaxStorageSteps == 3

\* number of time steps of the simulation with a storage shared by two
\* charging points
MaxSharedSteps == 3

\* ------------------------------------------------------------------------
\* Program constants
\* ------------------------------------------------------------------------

\* seconds of a tick: resolution.total_seconds() of a resolution of one tick
SecondsPerTick == 3600

\* datetime.datetime(9999, 1, 1), the "large enough date" of the queue
FarFuture == 999999

\* progress is yielded every 5 % of the steps: int(0.05 * total_time_steps)
ProgressPercent == 5

\* ------------------------------------------------------------------------
\* Generic helpers
\* ------------------------------------------------------------------------

Min2(a, b) == IF a <= b THEN a ELSE b

Max2(a, b) == IF a >= b THEN a ELSE b

RECURSIVE MinOfSet(_)
MinOfSet(S) ==
  LET x == CHOOSE y \in S : TRUE IN
  IF S = {x} THEN x ELSE Min2(x, MinOfSet(S \ {x}))

\* all orders in which the elements of a set can be iterated
Orders(S) ==
  {s \in [1..Cardinality(S) -> S] : \A i, j \in 1..Cardinality(S) : i # j => s[i] # s[j]}

SeqToSet(s) == {s[i] : i \in 1..Len(s)}

\* list.sort(key=...): the key of every element is computed once; the
\* list of the pairs <<key, element>>
RECURSIVE Keyed(_, _)
Keyed(s, key) ==
  IF s = << >> THEN << >>
  ELSE Append(Keyed(SubSeq(s, 1, Len(s) - 1), key), <<key[s[Len(s)]], s[Len(s)]>>)

\* list.sort(key=...): stable insertion of the pair x into a list of pairs
\* sorted by key
RECURSIVE InsertSorted(_, _)
InsertSorted(s, x) ==
  IF s = << >> THEN <<x>>
  ELSE IF x[1] < Head(s)[1] THEN <<x>> \o s
  ELSE <<Head(s)>> \o InsertSorted(Tail(s), x)

\* list.sort(key=...): stable ascending sort of a list of pairs by key
RECURSIVE SortKeyed(_)
SortKeyed(pairs) ==
  IF pairs = << >> THEN << >>
  ELSE InsertSorted(SortKeyed(SubSeq(pairs, 1, Len(pairs) - 1)), pairs[Len(pairs)])

\* the elements of a list of pairs <<key, element>>
RECURSIVE Elements(_)
Elements(pairs) ==
  IF pairs = << >> THEN << >>
  ELSE Append(Elements(SubSeq(pairs, 1, Len(pairs) - 1)), pairs[Len(pairs)][2])

\* list.sort(key=...): stable ascending sort of the list s by key
SortBy(s, key) == Elements(SortKeyed(Keyed(s, key)))

\* ------------------------------------------------------------------------
\* Python floats (IEEE 754 doubles) and whole numbers of any size
\* ------------------------------------------------------------------------

\* int.bit_length() of n >= 0
RECURSIVE bit_length(_)
bit_length(n) ==
  IF n >= 256 THEN 8 + bit_length(n \div 256)
  ELSE IF n >= 16 THEN 4 + bit_length(n \div 16)
  ELSE IF n = 0 THEN 0
  ELSE 1 + bit_length(n \div 2)

\* the number of zero bits at the low end of n > 0
RECURSIVE trailing_zeros(_)
trailing_zeros(n) ==
  IF n % 2 = 1 THEN 0
  ELSE IF n % 16 = 0 THEN 4 + trailing_zeros(n \div 16)
  ELSE 1 + trailing_zeros(n \div 2)

\* A whole number of any size is the sequence of its digits to the base
\* 2^LimbBits, lowest digit first, without leading zeros; 0 is << >>.

Base == 2^15

LimbBits == bit_length(Base) - 1

digit(a, i) == IF i <= Len(a) THEN a[i] ELSE 0

RECURSIVE big_norm(_)
big_norm(a) ==
  IF a = << >> THEN << >>
  ELSE IF a[Len(a)] = 0 THEN big_norm(SubSeq(a, 1, Len(a) - 1))
  ELSE a

RECURSIVE big_from_int(_)
big_from_int(n) == IF n = 0 THEN << >> ELSE <<n % Base>> \o big_from_int(n \div Base)

RECURSIVE big_to_int(_)
big_to_int(a) == IF a = << >> THEN 0 ELSE a[1] + Base * big_to_int(Tail(a))

RECURSIVE big_add_from(_, _, _, _)
big_add_from(a, b, i, carry) ==
  IF i > Len(a) /\ i > Len(b)
  THEN IF carry = 0 THEN << >> ELSE <<carry>>
  ELSE LET s == digit(a, i) + digit(b, i) + carry
       IN <<s % Base>> \o big_add_from(a, b, i + 1, s \div Base)

big_add(a, b) == big_add_from(a, b, 1, 0)

\* a - b for a >= b
RECURSIVE big_sub_from(_, _, _, _)
big_sub_from(a, b, i, borrow) ==
  IF i > Len(a) THEN << >>
  ELSE LET s == a[i] - digit(b, i) - borrow
       IN IF s < 0 THEN <<s + Base>> \o big_sub_from(a, b, i + 1, 1)
          ELSE <<s>> \o big_sub_from(a, b, i + 1, 0)

big_sub(a, b) == big_norm(big_sub_from(a, b, 1, 0))

\* -1, 0 or 1 as a < b, a = b or a > b
RECURSIVE big_cmp_from(_, _, _)
big_cmp_from(a, b, i) ==
  IF i = 0 THEN 0
  ELSE IF a[i] < b[i] THEN 0 - 1
  ELSE IF a[i] > b[i] THEN 1
  ELSE big_cmp_from(a, b, i - 1)

big_cmp(a, b) ==
  IF Len(a) < Len(b) THEN 0 - 1
  ELSE IF Len(a) > Len(b) THEN 1
  ELSE big_cmp_from(a, b, Len(a))

\* a * k + carry for 0 <= k < Base
RECURSIVE big_mul_digit(_, _, _, _)
big_mul_digit(a, k, i, carry) ==
  IF i > Len(a)
  THEN IF carry = 0 THEN << >> ELSE <<carry>>
  ELSE LET s == a[i] * k + carry
       IN <<s % Base>> \o big_mul_digit(a, k, i + 1, s \div Base)

RECURSIVE big_mul_from(_, _, _)
big_mul_from(a, b, i) ==
  IF i > Len(b) THEN << >>
  ELSE big_add(big_mul_digit(a, b[i], 1, 0), <<0>> \o big_mul_from(a, b, i + 1))

big_mul(a, b) == big_norm(big_mul_from(a, b, 1))

\* quotient and remainder of a by 0 < k < Base, from the highest digit i on
RECURSIVE big_divmod_digit(_, _, _, _)
big_divmod_digit(a, k, i, rem) ==
  IF i = 0 THEN [q |-> << >>, r |-> rem]
  ELSE LET cur == rem * Base + a[i]
           rest == big_divmod_digit(a, k, i - 1, cur % k)
       IN [q |-> rest.q \o <<cur \div k>>, r |-> rest.r]

zeros(n) == [i \in 1..n |-> 0]

\* a * 2^n
big_shl(a, n) ==
  IF a = << >> THEN << >>
  ELSE zeros(n \div LimbBits) \o big_mul_digit(a, 2^(n % LimbBits), 1, 0)

\* a \div 2^n
big_shr(a, n) ==
  LET whole == n \div LimbBits
      kept == IF whole >= Len(a) THEN << >> ELSE SubSeq(a, whole + 1, Len(a))
  IN big_norm(big_divmod_digit(kept, 2^(n % LimbBits), Len(kept), 0).q)

big_bit_length(a) ==
  IF a = << >> THEN 0 ELSE LimbBits * (Len(a) - 1) + bit_length(a[Len(a)])

\* bit i of a, bit 0 being the lowest
big_bit(a, i) == (digit(a, i \div LimbBits + 1) \div 2^(i % LimbBits)) % 2

\* the number of zero bits at the low end of a > 0, from digit i on
RECURSIVE big_trailing_zeros_from(_, _)
big_trailing_zeros_from(a, i) ==
  IF a[i] = 0 THEN LimbBits + big_trailing_zeros_from(a, i + 1)
  ELSE trailing_zeros(a[i])

big_trailing_zeros(a) == big_trailing_zeros_from(a, 1)

\* the largest digit d in lo..hi with b * d <= r
RECURSIVE big_quotient_digit(_, _, _, _)
big_quotient_digit(r, b, lo, hi) ==
  IF lo = hi THEN lo
  ELSE LET mid == (lo + hi + 1) \div 2
       IN IF big_cmp(big_mul_digit(b, mid, 1, 0), r) <= 0
          THEN big_quotient_digit(r, b, mid, hi)
          ELSE big_quotient_digit(r, b, lo, mid - 1)

\* long division of a by b > 0, from the highest digit i of a on: quotient
\* and remainder.  big_divmod_step takes the digit d of the quotient that
\* belongs to the running remainder cur, big_divmod_rest the quotient and
\* remainder of the lower digits.
RECURSIVE big_divmod_from(_, _, _, _)
big_divmod_rest(rest, d) == [q |-> rest.q \o <<d>>, r |-> rest.r]

big_divmod_step(a, b, i, cur, d) ==
  IF d = 0 THEN big_divmod_rest(big_divmod_from(a, b, i - 1, cur), d)
  ELSE big_divmod_rest(big_divmod_from(a, b, i - 1,
                                       big_sub(cur, big_mul_digit(b, d, 1, 0))),
                       d)

big_divmod_cur(a, b, i, cur) ==
  big_divmod_step(a, b, i, cur, big_quotient_digit(cur, b, 0, Base - 1))

big_divmod_from(a, b, i, rem) ==
  IF i = 0 THEN [q |-> << >>, r |-> rem]
  ELSE big_divmod_cur(a, b, i, big_norm(<<a[i]>> \o rem))

big_divmod_norm(res) == [q |-> big_norm(res.q), r |-> res.r]

\* the result of the division by a single digit, its remainder as a whole
\* number of any size
big_divmod_short(res) == [q |-> big_norm(res.q), r |-> big_from_int(res.r)]

big_divmod(a, b) ==
  IF Len(b) = 1 THEN big_divmod_short(big_divmod_digit(a, b[1], Len(a), 0))
  ELSE big_divmod_norm(big_divmod_from(a, b, Len(a), << >>))

\* A Python float is an IEEE 754 double: sign * man * 2^exp with a whole
\* number man of at most MantissaBits bits.  It is kept with an odd man, and
\* 0.0 as man = << >> and exp = 0, so that equal floats are equal records.
\* (Exponents stay far inside the range of a double; there are no
\* infinities, NaNs or subnormal numbers in the runs of the model.)

MantissaBits == 53

float_zero == [sign |-> 1, man |-> << >>, exp |-> 0]

\* sign * man * 2^exp with the tz zero bits at the low end of man taken out
float_shifted(sign, man, exp, tz) ==
  [sign |-> sign, man |-> big_shr(man, tz), exp |-> exp + tz]

float_exact(sign, man, exp) ==
  IF man = << >> THEN float_zero
  ELSE IF man[1] % 2 = 1 THEN [sign |-> sign, man |-> man, exp |-> exp]
  ELSE float_shifted(sign, man, exp, big_trailing_zeros(man))

\* man without its lowest drop bits, rounded to the nearest, ties to the
\* even: q is man \div 2^drop and half compares the bits dropped with half
\* of 2^drop
round_half_even(q, half) ==
  IF half > 0 \/ (half = 0 /\ big_bit(q, 0) = 1) THEN big_add(q, <<1>>) ELSE q

round_quotient(man, drop, q) ==
  round_half_even(q, big_cmp(big_sub(man, big_shl(q, drop)), big_shl(<<1>>, drop - 1)))

round_mantissa(man, drop) ==
  IF drop <= 0 THEN man ELSE round_quotient(man, drop, big_shr(man, drop))

float_round_drop(sign, man, exp, drop) ==
  float_exact(sign, round_mantissa(man, drop), exp + Max2(drop, 0))

\* the double nearest to sign * man * 2^exp, ties to the even mantissa
float_round(sign, man, exp) ==
  IF man = << >> THEN float_zero
  ELSE float_round_drop(sign, man, exp, big_bit_length(man) - MantissaBits)

\* float(n) of an int n
float(n) ==
  float_exact(IF n < 0 THEN 0 - 1 ELSE 1, big_from_int(IF n < 0 THEN 0 - n ELSE n), 0)

float_neg(a) == IF a.man = << >> THEN a ELSE [a EXCEPT !.sign = 0 - a.sign]

\* sa * ma * 2^exp + sb * mb * 2^exp, c comparing ma with mb
float_add_compared(sa, ma, sb, mb, exp, c) ==
  float_round(IF sa = sb \/ c > 0 THEN sa ELSE sb,
              IF sa = sb THEN big_add(ma, mb)
              ELSE IF c > 0 THEN big_sub(ma, mb)
              ELSE big_sub(mb, ma),
              exp)

float_add_aligned(sa, ma, sb, mb, exp) ==
  float_add_compared(sa, ma, sb, mb, exp, big_cmp(ma, mb))

float_add_at(a, b, exp) ==
  float_add_aligned(a.sign, big_shl(a.man, a.exp - exp),
                    b.sign, big_shl(b.man, b.exp - exp), exp)

\* a + b
float_add(a, b) ==
  IF a.man = << >> THEN b
  ELSE IF b.man = << >> THEN a
  ELSE float_add_at(a, b, Min2(a.exp, b.exp))

\* a - b
float_sub(a, b) == float_add(a, float_neg(b))

\* a * b
float_mul(a, b) ==
  IF a.man = << >> \/ b.man = << >> THEN float_zero
  ELSE float_round(a.sign * b.sign, big_mul(a.man, b.man), a.exp + b.exp)

\* a / b, b being none of the zeros the code divides by: the quotient of the
\* mantissas to three bits more than a double holds, the lowest bit set when
\* the division leaves a remainder
float_div_sticky(sign, res, exp) ==
  float_round(sign, big_add(big_shl(res.q, 1), IF res.r = << >> THEN << >> ELSE <<1>>),
              exp)

float_div_shifted(a, b, shift) ==
  float_div_sticky(a.sign * b.sign, big_divmod(big_shl(a.man, shift), b.man),
                   a.exp - b.exp - shift - 1)

float_div(a, b) ==
  IF b.man = << >> \/ a.man = << >> THEN float_zero
  ELSE IF b.man = <<1>>
  THEN [sign |-> a.sign * b.sign, man |-> a.man, exp |-> a.exp - b.exp]
  ELSE float_div_shifted(a, b,
         Max2(MantissaBits + 3 + big_bit_length(b.man) - big_bit_length(a.man), 0))

\* -1, 0 or 1 as d < 0, d = 0 or d > 0
float_sign(d) == IF d.man = << >> THEN 0 ELSE d.sign

\* -1, 0 or 1 as |a| < |b|, |a| = |b| or |a| > |b|, for a and b other than
\* 0: the one whose highest bit stands higher is the larger, and with the
\* highest bits at the same place the mantissas at the same exponent decide
float_cmp_aligned(a, b, exp) ==
  big_cmp(big_shl(a.man, a.exp - exp), big_shl(b.man, b.exp - exp))

float_cmp_magnitude(a, b, top_a, top_b) ==
  IF top_a < top_b THEN 0 - 1
  ELSE IF top_a > top_b THEN 1
  ELSE float_cmp_aligned(a, b, Min2(a.exp, b.exp))

\* -1, 0 or 1 as a < b, a = b or a > b
float_cmp(a, b) ==
  IF a = b THEN 0
  ELSE IF a.man = << >> THEN 0 - b.sign
  ELSE IF b.man = << >> THEN a.sign
  ELSE IF a.sign # b.sign THEN a.sign
  ELSE a.sign * float_cmp_magnitude(a, b, big_bit_length(a.man) + a.exp,
                                    big_bit_length(b.man) + b.exp)

float_lt(a, b) == IF a = b THEN FALSE ELSE float_cmp(a, b) < 0

float_le(a, b) == IF a = b THEN TRUE ELSE float_cmp(a, b) < 0

\* min(a, b) and max(a, b) of Python: the first argument unless the second
\* is smaller (larger)
float_min(a, b) == IF float_lt(b, a) THEN b ELSE a

float_max(a, b) == IF float_lt(a, b) THEN b ELSE a

\* math.floor(a) as an int
math_floor(a) ==
  IF a.exp >= 0 THEN a.sign * big_to_int(big_shl(a.man, a.exp))
  ELSE LET q == big_to_int(big_shr(a.man, 0 - a.exp))
       IN IF a.sign > 0 THEN q ELSE 0 - (q + 1)

\* math.ceil(a) as an int
math_ceil(a) ==
  IF a.exp >= 0 THEN a.sign * big_to_int(big_shl(a.man, a.exp))
  ELSE math_floor(a) + 1

\* round(a, ndigits) of a float, as the whole number of units 10^-ndigits
\* it returns (scale = 10^ndigits): the exact value of the double is rounded
\* to the nearest unit, and to the even one if it lies exactly halfway
py_round(a, scale) ==
  IF a.man = << >> THEN 0
  ELSE IF a.exp >= 0
  THEN a.sign * big_to_int(big_shl(big_mul(a.man, big_from_int(scale)), a.exp))
  ELSE a.sign * big_to_int(round_mantissa(big_mul(a.man, big_from_int(scale)),
                                          0 - a.exp))

\* a % 1 of a float: a - math.floor(a)
float_mod_1(a) == IF a.man = << >> THEN a ELSE float_sub(a, float(math_floor(a)))

\* the literal n / 10^3 of a float with three decimals
decimal(n) == float_div(float(n), float(1000))

\* coeff = 10 ** decimals of elvis_general.floor(value, decimals=3)
coeff == float(1000)

\* elvis_general.floor(value, 3): math.floor(value * coeff) / coeff
floor(value) == float_div(float(math_floor(float_mul(value, coeff))), coeff)

\* the float n / 8
eighths(n) == float_div(float(n), float(8))

\* timedelta.total_seconds() / 3600 of a time of ticks
total_hours(ticks) == float_div(float(ticks * SecondsPerTick), float(3600))

\* power += power_assigned[leaf] for the charging points of a list
RECURSIVE add_in_order(_, _, _)
add_in_order(start, power_assigned, order) ==
  IF order = << >> THEN start
  ELSE add_in_order(float_add(start, power_assigned[Head(order)]), power_assigned,
                    Tail(order))

\* ------------------------------------------------------------------------
\* Vehicle types and batteries (battery.py, vehicle.py)
\* ------------------------------------------------------------------------

VehicleTypes == {"vtA", "vtB", "vtC"}

\* EVBattery of vehicle type vtA: 8 kWh, 1.5 kW, with the default
\* start_power_degradation = 1 and max_degradation_level = 0
EVBattery_vtA ==
  [capacity |-> float(8), max_charge_power |-> eighths(12),
   min_charge_power |-> float_zero,
   start_power_degradation |-> float(1), max_degradation_level |-> float_zero]

\* EVBattery of vehicle type vtB: 4 kWh, 2 kW; it derates from soc 0.5 on
\* down to half of its power at soc 1
EVBattery_vtB ==
  [capacity |-> float(4), max_charge_power |-> float(2),
   min_charge_power |-> float_zero,
   start_power_degradation |-> eighths(4), max_degradation_level |-> eighths(4)]

\* EVBattery of vehicle type vtC: 100 kWh, 50 kW, with the default
\* start_power_degradation = 1 and max_degradation_level = 0
EVBattery_vtC ==
  [capacity |-> float(100), max_charge_power |-> float(50),
   min_charge_power |-> float_zero,
   start_power_degradation |-> float(1), max_degradation_level |-> float_zero]

\* vehicle_type.battery
Battery(vt) ==
  IF vt = "vtA" THEN EVBattery_vtA
  ELSE IF vt = "vtB" THEN EVBattery_vtB
  ELSE EVBattery_vtC

\* Battery.max_power_possible(current_soc)
max_power_possible(b, current_soc) ==
  IF float_lt(b.start_power_degradation, current_soc)
  THEN LET power_degradation ==
             float_mul(float_mul(float_div(float_sub(current_soc, b.start_power_degradation),
                                           float_sub(float(1), b.start_power_degradation)),
                                 b.max_charge_power),
                       float_sub(float(1), b.max_degradation_level))
       IN float_sub(b.max_charge_power, power_degradation)
  ELSE b.max_charge_power

\* Battery.min_power_possible(current_soc)
min_power_possible(b, current_soc) == b.min_charge_power

\* StationaryBattery(capacity, max_charge_power, min_charge_power,
\* efficiency) as set_up_infrastructure constructs it: soc = 0, min_soc = 0,
\* power = 0, soc_time = []
StationaryBattery(capacity, max_charge_power) ==
  [capacity |-> capacity, max_charge_power |-> max_charge_power,
   min_soc |-> float_zero, soc |-> float_zero, power |-> float_zero,
   soc_time |-> << >>]

\* StationaryBattery.check_soc(): assert 0 <= self.soc <= 1
check_soc(b) == float_le(float_zero, b.soc) /\ float_le(b.soc, float(1))

\* StationaryBattery.max_discharge_power(cur_ass_power, step_length)
max_discharge_power(b, cur_ass_power, step_length_hours) ==
  LET max_power_theo == float_sub(b.max_charge_power, cur_ass_power)
      soc_cur_ass_power ==
        float_mul(float_div(cur_ass_power, b.capacity), step_length_hours)
      power_to_empty ==
        float_div(float_mul(float_sub(float_sub(b.soc, soc_cur_ass_power), b.min_soc),
                            b.capacity),
                  step_length_hours)
      max_power == float_max(float_min(max_power_theo, power_to_empty), float_zero)
  IN floor(max_power)

\* variant of charge that leaves max_charge_power out of the limits
charge_power_no_power_limit(b, available_power, step_length_hours) ==
  LET max_power_to_full ==
        float_div(float_mul(float_sub(float(1), b.soc), b.capacity), step_length_hours)
  IN float_min(max_power_to_full, available_power)

\* StationaryBattery.charge(available_power, step_length): power_charged =
\* min(max_power_to_full, self.max_charge_power, available_power)
charge_power(b, available_power, step_length_hours) ==
  LET max_power_to_full ==
        float_div(float_mul(float_sub(float(1), b.soc), b.capacity), step_length_hours)
  IN float_min(float_min(max_power_to_full, b.max_charge_power), available_power)

\* StationaryBattery.charge, once power_charged is known: the soc rises,
\* check_soc asserts, power and soc_time are written
StationaryBattery_charged(b, power_charged, charged) ==
  IF ~check_soc(charged)
  THEN [battery |-> charged, returned |-> float_zero, raised |-> "AssertionError"]
  ELSE [battery |-> [charged EXCEPT !.power = power_charged,
                                    !.soc_time = Append(@, charged.soc)],
        returned |-> power_charged, raised |-> "none"]

\* StationaryBattery.charge, the rise of the soc by delta_soc =
\* power_charged * hours / capacity
StationaryBattery_charge_with(b, power_charged, step_length_hours) ==
  StationaryBattery_charged(
    b, power_charged,
    [b EXCEPT !.soc = float_add(@, float_div(float_mul(power_charged, step_length_hours),
                                             b.capacity))])

\* StationaryBattery.charge(available_power, step_length): the battery
\* after the call, the power returned and the exception the call raised
StationaryBattery_charge(b, available_power, step_length_hours) ==
  IF float_lt(available_power, float_zero)
  THEN [battery |-> b, returned |-> float_zero, raised |-> "AssertionError"]
  ELSE StationaryBattery_charge_with(
         b, charge_power(b, available_power, step_length_hours), step_length_hours)

\* variant of discharge that lowers a power above the limit to the limit
StationaryBattery_discharge_clamps(b, power_to_discharge, step_length_hours) ==
  IF float_lt(power_to_discharge, float_zero)
  THEN [battery |-> b, raised |-> "AssertionError"]
  ELSE LET power == float_min(power_to_discharge,
                              max_discharge_power(b, float_zero, step_length_hours))
           delta_soc == float_div(float_mul(power, step_length_hours), b.capacity)
           discharged == [b EXCEPT !.power = float_neg(power),
                                   !.soc = float_sub(b.soc, delta_soc)]
       IN IF ~check_soc(discharged)
          THEN [battery |-> discharged, raised |-> "AssertionError"]
          ELSE [battery |-> [discharged EXCEPT !.soc_time = Append(@, discharged.soc)],
                raised |-> "none"]

\* StationaryBattery.discharge, once the power has passed the limit: power
\* is written, the soc falls, check_soc asserts, soc_time is written
StationaryBattery_discharged(discharged) ==
  IF ~check_soc(discharged)
  THEN [battery |-> discharged, raised |-> "AssertionError"]
  ELSE [battery |-> [discharged EXCEPT !.soc_time = Append(@, discharged.soc)],
        raised |-> "none"]

\* StationaryBattery.discharge(power_to_discharge, step_length): the battery
\* after the call and the exception the call raised
StationaryBattery_discharge(b, power_to_discharge, step_length_hours) ==
  IF float_lt(power_to_discharge, float_zero)
  THEN [battery |-> b, raised |-> "AssertionError"]
  ELSE IF float_lt(max_discharge_power(b, float_zero, step_length_hours),
                   power_to_discharge)
  THEN [battery |-> b, raised |-> "ValueError"]
  ELSE StationaryBattery_discharged(
         [b EXCEPT !.power = float_neg(power_to_discharge),
                   !.soc = float_sub(@, float_div(float_mul(power_to_discharge,
                                                            step_length_hours),
                                                  b.capacity))])

\* ------------------------------------------------------------------------
\* Infrastructure tree (set_up_infrastructure.py, infrastructure_node.py)
\* ------------------------------------------------------------------------

\* An infrastructure description gives max_power of the transformer, of
\* each charging station (cs) and of each charging point (cp), in kW, and
\* the storage under the transformer (none or one) with its
\* StationaryBattery.  The charging points are 1..Len(cp).

\* parent of a charging point: cp 1 and cp 2 hang under station 1, cp 3
\* under station 2; every station hangs under the transformer
parent(cp) == IF cp <= 2 THEN 1 ELSE 2

\* ChargingStation.leafs, among the charging points cps of the tree
leafs(cs, cps) == {cp \in cps : parent(cp) = cs}

\* one station with one charging point: transformer 7.5 kW, station 3.75 kW,
\* charging point 1.25 kW
InfraOne ==
  [transformer |-> eighths(60), cs |-> <<eighths(30)>>, cp |-> <<eighths(10)>>,
   storage |-> << >>]

\* station 1 (1.25 kW) carries one of its two points (1.25 kW each),
\* station 2 (0.625 kW) is below its point; transformer 7.5 kW
InfraTight ==
  [transformer |-> eighths(60), cs |-> <<eighths(10), eighths(5)>>,
   cp |-> <<eighths(10), eighths(10), eighths(10)>>, storage |-> << >>]

\* the transformer (1.25 kW) carries less than one point (2.75 kW and
\* 1.25 kW), a storage of 4 kWh and 0.75 kW helps
InfraStorage ==
  [transformer |-> eighths(10), cs |-> <<eighths(30)>>,
   cp |-> <<eighths(22), eighths(10)>>,
   storage |-> <<StationaryBattery(float(4), eighths(6))>>]

\* transformer 10 kW, a station of 30 kW with a charging point of 22 kW, a
\* storage of 10 kWh and 11 kW
FloatInfra ==
  [transformer |-> float(10), cs |-> <<float(30)>>, cp |-> <<float(22)>>,
   storage |-> <<StationaryBattery(float(10), float(11))>>]

\* the tree of FloatInfra with a second charging point, of 10 kW
SharedInfra == [FloatInfra EXCEPT !.cp = <<float(22), float(10)>>]

\* power_already_assigned += power_assigned[leaf] for the leafs 1 .. n of
\* the transformer that are no Storage
RECURSIVE add_assigned(_, _, _)
add_assigned(start, power_assigned, n) ==
  IF n = 0 THEN start
  ELSE float_add(add_assigned(start, power_assigned, n - 1), power_assigned[n])

\* power_cps += power_assigned[leaf] for the leafs of station cs among the
\* charging points 1 .. n
RECURSIVE add_leafs(_, _, _)
add_leafs(power_assigned, cs, n) ==
  IF n = 0 THEN float_zero
  ELSE IF parent(n) = cs
  THEN float_add(add_leafs(power_assigned, cs, n - 1), power_assigned[n])
  ELSE add_leafs(power_assigned, cs, n - 1)

\* variant of Transformer.max_hardware_power that leaves out the power
\* already assigned to the leafs
Transformer_max_hardware_power_no_leafs(infra, power_assigned, preload) ==
  floor(float_max(float_sub(infra.transformer, preload), float_zero))

\* Transformer.max_hardware_power(power_assigned, preload)
Transformer_max_hardware_power(infra, power_assigned, preload) ==
  LET power_already_assigned == add_assigned(preload, power_assigned, Len(infra.cp))
      max_power == float_max(float_sub(infra.transformer, power_already_assigned),
                             float_zero)
  IN float_div(float(math_floor(float_mul(max_power, float(1000)))), float(1000))

\* variant of ChargingStation.max_hardware_power that leaves out the power
\* already assigned to the leafs
ChargingStation_max_hardware_power_no_leafs(infra, cs, power_assigned) ==
  floor(infra.cs[cs])

\* ChargingStation.max_hardware_power(power_assigned)
ChargingStation_max_hardware_power(infra, cs, power_assigned) ==
  LET power_cps == add_leafs(power_assigned, cs, Len(infra.cp))
      max_power == float_sub(infra.cs[cs], power_cps)
  IN floor(max_power)

\* the connected_vehicle of a free charging point
None == [id |-> 0, arrival_time |-> 0, parking_time |-> 0, leaving_time |-> 0,
         soc |-> float_zero, soc_target |-> float_zero, vehicle_type |-> "vtA"]

\* variant of ChargingPoint.max_hardware_power that leaves out the max_power
\* of the charging point
ChargingPoint_max_hardware_power_vehicle_only(infra, cp, vehicle) ==
  IF vehicle # None
  THEN floor(max_power_possible(Battery(vehicle.vehicle_type), vehicle.soc))
  ELSE float_zero

\* ChargingPoint.max_hardware_power() for the connected vehicle
ChargingPoint_max_hardware_power(infra, cp, vehicle) ==
  IF vehicle # None
  THEN floor(float_min(infra.cp[cp],
                       max_power_possible(Battery(vehicle.vehicle_type), vehicle.soc)))
  ELSE float_zero

\* variant of power_to_charge_target that does not take the current soc
\* off: the power that would charge an empty battery to the target
power_to_charge_target_from_empty(vehicle, soc_target, timedelta_hours) ==
  float_div(float_mul(soc_target, Battery(vehicle.vehicle_type).capacity),
            timedelta_hours)

\* ChargingPoint.power_to_charge_target(timedelta, soc_target)
power_to_charge_target(vehicle, soc_target, timedelta_hours) ==
  IF float_lt(soc_target, vehicle.soc) THEN float_zero
  ELSE float_div(float_mul(float_sub(soc_target, vehicle.soc),
                           Battery(vehicle.vehicle_type).capacity),
                 timedelta_hours)

\* variant of ChargingPoint.charge_vehicle that takes the step for two
\* resolutions long and does not cut the soc at 1
charge_vehicle_twice(vehicle, power, step_hours) ==
  LET delta == float_div(float_mul(power, float_mul(float(2), step_hours)),
                         Battery(vehicle.vehicle_type).capacity)
  IN float_add(vehicle.soc, delta)

\* ChargingPoint.charge_vehicle(power, resolution): the new soc
charge_vehicle(vehicle, power, step_hours) ==
  LET delta == float_div(float_mul(power, step_hours),
                         Battery(vehicle.vehicle_type).capacity)
  IN float_min(float(1), float_add(vehicle.soc, delta))

\* ------------------------------------------------------------------------
\* Scheduling policies (sched/schedulers.py)
\* ------------------------------------------------------------------------

\* assign_power = {'cps': {cp: 0 ...}, 'storage': {}} at the start of schedule
no_power(infra) ==
  [cps |-> [cp \in DOMAIN infra.cp |-> float_zero], storage |-> << >>]

\* variant of the power Uncontrolled assigns that respects the max_power of
\* the charging station above the charging point
Uncontrolled_power_station_bound(infra, cp, vehicle, step_length_hours) ==
  LET power_cp == float_min(infra.cp[cp], infra.cs[parent(cp)])
      max_power_battery == max_power_possible(Battery(vehicle.vehicle_type), vehicle.soc)
      power_to_charge_full == power_to_charge_target(vehicle, float(1), step_length_hours)
  IN float_min(float_min(max_power_battery, power_to_charge_full), power_cp)

\* Uncontrolled.schedule, the loop over busy_cps: power of one charging point
Uncontrolled_power(infra, cp, vehicle, step_length_hours) ==
  LET power_cp == infra.cp[cp]
      max_power_battery == max_power_possible(Battery(vehicle.vehicle_type), vehicle.soc)
      power_to_charge_full == power_to_charge_target(vehicle, float(1), step_length_hours)
  IN float_min(float_min(max_power_battery, power_to_charge_full), power_cp)

\* Uncontrolled.schedule, the loop over busy_cps: assign_power['cps']
Uncontrolled_assigned(infra, busy_cps_now, vehicles, step_length_hours) ==
  [cp \in DOMAIN infra.cp |->
     IF cp \in busy_cps_now
     THEN Uncontrolled_power(infra, cp, vehicles[cp], step_length_hours)
     ELSE float_zero]

\* Uncontrolled.schedule, the loop over busy_cps: the values total_power can
\* have after it, one for each order in which the set busy_cps may be
\* listed
Uncontrolled_total_power(busy_cps_now, cps) ==
  {add_in_order(float_zero, cps, order) : order \in Orders(busy_cps_now)}

\* variant of Uncontrolled.schedule that always records the full power the
\* storage can deliver when the transformer is exceeded
Uncontrolled_schedule_full_discharge(infra, storage_system, busy_cps_now, vehicles, step_length_hours) ==
  LET cps == Uncontrolled_assigned(infra, busy_cps_now, vehicles, step_length_hours)
  IN {[cps |-> cps,
       storage |->
         IF storage_system = << >> THEN << >>
         ELSE IF float_lt(infra.transformer, total_power)
         THEN << float_neg(max_discharge_power(storage_system[1], float_zero,
                                               step_length_hours)) >>
         ELSE << float_zero >>] :
        total_power \in Uncontrolled_total_power(busy_cps_now, cps)}

\* Uncontrolled.schedule, the transformer is exceeded by overhead: the
\* storage delivers all it can, or the overhead rounded down
Uncontrolled_discharge(max_storage, overhead) ==
  IF float_lt(max_storage, overhead) THEN << float_neg(max_storage) >>
  ELSE << float_neg(floor(overhead)) >>

\* Uncontrolled.schedule, after the loop: assign_power['storage']
Uncontrolled_storage(infra, storage_system, total_power, step_length_hours) ==
  IF storage_system = << >> THEN << >>
  ELSE IF float_lt(infra.transformer, total_power)
  THEN Uncontrolled_discharge(
         max_discharge_power(storage_system[1], float_zero, step_length_hours),
         float_sub(total_power, infra.transformer))
  ELSE << float_zero >>

\* Uncontrolled.schedule, after the loop, for the assign_power['cps'] of the
\* loop
Uncontrolled_scheduled(infra, storage_system, busy_cps_now, cps, step_length_hours) ==
  {[cps |-> cps,
    storage |-> Uncontrolled_storage(infra, storage_system, total_power,
                                     step_length_hours)] :
     total_power \in Uncontrolled_total_power(busy_cps_now, cps)}

\* Uncontrolled.schedule(config, free_cps, busy_cps): the assignments it can
\* return, one for each total_power
Uncontrolled_schedule(infra, storage_system, busy_cps_now, vehicles, step_length_hours) ==
  Uncontrolled_scheduled(
    infra, storage_system, busy_cps_now,
    Uncontrolled_assigned(infra, busy_cps_now, vehicles, step_length_hours),
    step_length_hours)

\* variant of the loop body that counts every busy charging point as
\* charged, whatever limits its power
schedule_cp_counts_always(infra, storage_system, preload, max_power_transformer_0, step_length_hours, vehicles, acc, cp) ==
  LET cp_max == ChargingPoint_max_hardware_power(infra, cp, vehicles[cp])
      at_station == float_min(cp_max,
                              ChargingStation_max_hardware_power(infra, parent(cp), acc.cps))
      max_power_transformer == Transformer_max_hardware_power(infra, acc.cps, preload)
      max_power_storage ==
        IF storage_system # << >>
        THEN max_discharge_power(storage_system[1], acc.power_storage, step_length_hours)
        ELSE float_zero
      power_available ==
        IF storage_system # << >>
        THEN floor(float_add(max_power_transformer, max_power_storage))
        ELSE floor(max_power_transformer)
      max_hardware_power == float_min(at_station, power_available)
      power_to_charge_full ==
        floor(power_to_charge_target(vehicles[cp], float(1), step_length_hours))
      power == float_min(power_to_charge_full, max_hardware_power)
      total_power_assigned == float_add(acc.total_power_assigned, power)
  IN [cps |-> [acc.cps EXCEPT ![cp] = power],
      total_power_assigned |-> total_power_assigned,
      power_storage |->
        IF float_lt(max_power_transformer_0, total_power_assigned)
           /\ max_power_storage # float_zero
        THEN floor(float_sub(total_power_assigned, max_power_transformer_0))
        ELSE acc.power_storage,
      charged |-> acc.charged \cup {cp}]

\* the end of the loop body: the power is added to total_power_assigned and
\* written to assign_power['cps'][cp], and power_storage is set when the
\* total exceeds max_power_transformer_0 and the storage can deliver
schedule_cp_booked(acc, cp, max_power_transformer_0, max_power_storage, counted, power, total_power_assigned) ==
  [cps |-> [acc.cps EXCEPT ![cp] = power],
   total_power_assigned |-> total_power_assigned,
   power_storage |->
     IF float_lt(max_power_transformer_0, total_power_assigned)
        /\ max_power_storage # float_zero
     THEN floor(float_sub(total_power_assigned, max_power_transformer_0))
     ELSE acc.power_storage,
   charged |-> IF counted THEN acc.charged \cup {cp} ELSE acc.charged]

\* total_power_assigned += power; DiscriminationFree.schedule counts the
\* charging point as charged when power == power_to_charge_full or when
\* power < cp.max_hardware_power() does not hold
schedule_cp_assigned(acc, cp, max_power_transformer_0, max_power_storage, max_power_cp, power_to_charge_full, power) ==
  schedule_cp_booked(acc, cp, max_power_transformer_0, max_power_storage,
                     power = power_to_charge_full \/ ~float_lt(power, max_power_cp),
                     power, float_add(acc.total_power_assigned, power))

\* the walk up the tree: max_hardware_power is the least of the charging
\* point's, the station's and power_available; power =
\* min(power_to_charge_full, max_hardware_power)
schedule_cp_limited(acc, cp, max_power_transformer_0, max_power_cp, max_power_station, power_available, max_power_storage, power_to_charge_full) ==
  schedule_cp_assigned(
    acc, cp, max_power_transformer_0, max_power_storage, max_power_cp,
    power_to_charge_full,
    float_min(power_to_charge_full,
              float_min(float_min(max_power_cp, max_power_station), power_available)))

\* the walk up the tree at the transformer: power_available is
\* floor(max_power_transformer + max_power_storage) with a storage and
\* floor(max_power_transformer) without
schedule_cp_at_transformer(acc, cp, max_power_transformer_0, with_storage, max_power_cp, max_power_station, max_power_transformer, max_power_storage, power_to_charge_full) ==
  schedule_cp_limited(
    acc, cp, max_power_transformer_0, max_power_cp, max_power_station,
    IF with_storage THEN floor(float_add(max_power_transformer, max_power_storage))
    ELSE floor(max_power_transformer),
    max_power_storage, power_to_charge_full)

\* FCFS.schedule / DiscriminationFree.schedule, body of the loop over the
\* sorted busy charging points: walk up the tree from cp, take the power and
\* book what the storage has to deliver.  acc holds assign_power['cps'],
\* total_power_assigned, power_storage and the charging points
\* DiscriminationFree counts as charged; max_power_storage is 0 in a tree
\* without a storage.
schedule_cp(infra, storage_system, preload, max_power_transformer_0, step_length_hours, vehicles, acc, cp) ==
  schedule_cp_at_transformer(
    acc, cp, max_power_transformer_0, storage_system # << >>,
    ChargingPoint_max_hardware_power(infra, cp, vehicles[cp]),
    ChargingStation_max_hardware_power(infra, parent(cp), acc.cps),
    Transformer_max_hardware_power(infra, acc.cps, preload),
    IF storage_system # << >>
    THEN max_discharge_power(storage_system[1], acc.power_storage, step_length_hours)
    ELSE float_zero,
    floor(power_to_charge_target(vehicles[cp], float(1), step_length_hours)))

\* the loop over sorted_busy_cps
RECURSIVE schedule_loop(_, _, _, _, _, _, _, _)
schedule_loop(infra, storage_system, preload, max_power_transformer_0, step_length_hours, vehicles, acc, sorted_busy_cps) ==
  IF sorted_busy_cps = << >> THEN acc
  ELSE schedule_loop(infra, storage_system, preload, max_power_transformer_0,
                     step_length_hours, vehicles,
                     schedule_cp(infra, storage_system, preload, max_power_transformer_0,
                                 step_length_hours, vehicles, acc, Head(sorted_busy_cps)),
                     Tail(sorted_busy_cps))

\* FCFS.schedule / DiscriminationFree.schedule, after the loop:
\* assign_power['storage'][storage_system] = -power_storage if there is a
\* storage
schedule_assigned(storage_system, acc) ==
  [cps |-> acc.cps,
   storage |-> IF storage_system # << >> THEN << float_neg(acc.power_storage) >>
               ELSE << >>,
   charged |-> acc.charged]

\* FCFS.schedule / DiscriminationFree.schedule from the sorted list on:
\* max_power_transformer_0, the loop and the storage entry of the result
schedule_sorted(infra, storage_system, sorted_busy_cps, vehicles, preload, step_length_hours) ==
  schedule_assigned(
    storage_system,
    schedule_loop(infra, storage_system, preload,
                  Transformer_max_hardware_power(infra, no_power(infra).cps, preload),
                  step_length_hours, vehicles,
                  [cps |-> no_power(infra).cps, total_power_assigned |-> float_zero,
                   power_storage |-> float_zero, charged |-> {}],
                  sorted_busy_cps))

\* variant of the sort of FCFS by the arrival_time of the connected vehicle
FCFS_sorted_by_arrival(busy_order, vehicles) ==
  SortBy(busy_order, [cp \in DOMAIN vehicles |-> vehicles[cp].arrival_time])

\* FCFS.schedule: sorted_busy_cps.sort(key=leaving_time) of list(busy_cps),
\* busy_order being the order in which the set busy_cps is listed
FCFS_sorted(busy_order, vehicles) ==
  SortBy(busy_order, [cp \in DOMAIN vehicles |-> vehicles[cp].leaving_time])

\* FCFS.schedule, what is returned: assign_power
FCFS_returned(res) == [cps |-> res.cps, storage |-> res.storage]

\* FCFS.schedule(config, free_cps, busy_cps, time_step_pos): the
\* assignments it can return, one for each sorted list that the orders in
\* which the set busy_cps may be listed give
FCFS_schedule(infra, storage_system, busy_cps_now, vehicles, preload, step_length_hours) ==
  {FCFS_returned(schedule_sorted(infra, storage_system, sorted_busy_cps, vehicles,
                                 preload, step_length_hours)) :
     sorted_busy_cps \in {FCFS_sorted(busy_order, vehicles) :
                            busy_order \in Orders(busy_cps_now)}}

\* DiscriminationFree: time_steps_to_charge_in_a_row =
\* int(max(df_charging_period / resolution, 1))
time_steps_to_charge_in_a_row(df_charging_period, resolution) ==
  Max2(df_charging_period \div resolution, 1)

\* round((times_charged / W) % 1, 2), in hundredths: the quotient and the
\* remainder are those of doubles
round2(tc, W) == py_round(float_mod_1(float_div(float(tc), float(W))), 100)

\* the state of DiscriminationFree before its first schedule call
state_None == [none |-> TRUE, entries |-> << >>]

\* the charging points that are keys of the state dict
state_keys(state) == {state.entries[i].cp : i \in 1..Len(state.entries)}

\* self.state[cp]['times_charged']
times_charged(state, cp) ==
  LET i == CHOOSE j \in 1..Len(state.entries) : state.entries[j].cp = cp
  IN state.entries[i].times_charged

\* DiscriminationFree.update_state, first loop: every entry loses sub, an
\* entry whose charging point is not busy is deleted, an entry whose vehicle
\* changed is reset
RECURSIVE update_entries(_, _, _, _)
update_entries(entries, cps, vehicles, sub) ==
  IF entries = << >> THEN << >>
  ELSE LET e == Head(entries)
           rest == update_entries(Tail(entries), cps, vehicles, sub)
       IN IF e.cp \notin cps THEN rest
          ELSE IF e.id # vehicles[e.cp].id
          THEN <<[cp |-> e.cp, id |-> vehicles[e.cp].id, times_charged |-> 0]>> \o rest
          ELSE <<[cp |-> e.cp, id |-> e.id, times_charged |-> e.times_charged - sub]>> \o rest

\* DiscriminationFree.update_state, second loop: busy charging points that
\* are no key yet are appended in the order the set cps is listed
RECURSIVE add_entries(_, _, _)
add_entries(entries, cps_order, vehicles) ==
  IF cps_order = << >> THEN entries
  ELSE LET cp == Head(cps_order)
           known == \E i \in 1..Len(entries) : entries[i].cp = cp
       IN add_entries(IF known THEN entries
                      ELSE Append(entries, [cp |-> cp, id |-> vehicles[cp].id,
                                            times_charged |-> 0]),
                      Tail(cps_order), vehicles)

\* variant of update_state that takes the minimum of times_charged after the
\* entries of departed vehicles are deleted, those of changed vehicles reset
\* and the new ones added
update_state_min_after(state, cps_order, vehicles, W) ==
  IF ~state.none
  THEN LET entries == add_entries(update_entries(state.entries, SeqToSet(cps_order),
                                                 vehicles, 0),
                                  cps_order, vehicles)
           tcs == {entries[i].times_charged : i \in 1..Len(entries)}
           min_times_charged == IF Len(entries) > 0 THEN MinOfSet(tcs) ELSE 0
           sub == min_times_charged - (min_times_charged % W)
       IN [none |-> FALSE,
           entries |-> [i \in 1..Len(entries) |->
                          [entries[i] EXCEPT !.times_charged = @ - sub]]]
  ELSE [none |-> FALSE, entries |-> add_entries(<< >>, cps_order, vehicles)]

\* DiscriminationFree.update_state(cps, config)
update_state(state, cps_order, vehicles, W) ==
  IF ~state.none
  THEN LET tcs == {state.entries[i].times_charged : i \in 1..Len(state.entries)}
           min_times_charged == IF Len(state.entries) > 0 THEN MinOfSet(tcs) ELSE 0
           sub == min_times_charged - (min_times_charged % W)
       IN [none |-> FALSE,
           entries |-> add_entries(update_entries(state.entries, SeqToSet(cps_order),
                                                  vehicles, sub),
                                   cps_order, vehicles)]
  ELSE [none |-> FALSE, entries |-> add_entries(<< >>, cps_order, vehicles)]

\* variant of sort_cps without the second sort
sort_cps_by_times_charged(state, W) ==
  LET state_list == [i \in 1..Len(state.entries) |-> state.entries[i].cp]
  IN SortBy(state_list, [cp \in state_keys(state) |-> times_charged(state, cp)])

\* DiscriminationFree.sort_cps(config): two stable sorts of list(self.state),
\* by times_charged / W ascending, then by round((times_charged / W) % 1, 2)
\* descending
sort_cps(state, W) ==
  LET state_list == [i \in 1..Len(state.entries) |-> state.entries[i].cp]
      first == SortBy(state_list, [cp \in state_keys(state) |-> times_charged(state, cp)])
  IN SortBy(first, [cp \in state_keys(state) |->
                      0 - round2(times_charged(state, cp), W)])

\* DiscriminationFree.schedule: times_charged + 1 for the counted points
count_charged(state, charged) ==
  [none |-> FALSE,
   entries |-> [i \in 1..Len(state.entries) |->
      IF state.entries[i].cp \in charged
      THEN [state.entries[i] EXCEPT !.times_charged = @ + 1]
      ELSE state.entries[i]]]

\* DiscriminationFree.schedule, after the loop: the assignment, and
\* times_charged + 1 for the charging points counted in the loop
DiscriminationFree_counted(updated, res) ==
  [assign_power |-> [cps |-> res.cps, storage |-> res.storage],
   updated |-> updated,
   state |-> count_charged(updated, res.charged)]

\* DiscriminationFree.schedule, after update_state: sort_cps and the loop
DiscriminationFree_updated(infra, storage_system, vehicles, preload, step_length_hours, updated, W) ==
  DiscriminationFree_counted(
    updated,
    schedule_sorted(infra, storage_system, sort_cps(updated, W), vehicles, preload,
                    step_length_hours))

\* DiscriminationFree.schedule for the states that update_state can leave
\* and that sort_cps sorts to the same list: the loop assigns the same
\* power for all of them
DiscriminationFree_sorted(infra, storage_system, vehicles, preload, step_length_hours, updated_states, sorted_busy_cps, W) ==
  LET res == schedule_sorted(infra, storage_system, sorted_busy_cps, vehicles, preload,
                             step_length_hours)
  IN {DiscriminationFree_counted(updated, res) :
        updated \in {u \in updated_states : sort_cps(u, W) = sorted_busy_cps}}

\* DiscriminationFree.schedule(config, free_cps, busy_cps, time_step_pos):
\* the assignment, the state update_state left and the new state; one for
\* each state that update_state can leave, which goes through the set
\* busy_cps in the order in which it is listed
DiscriminationFree_schedule(infra, storage_system, busy_cps_now, vehicles, preload, step_length_hours, state, W) ==
  LET updated_states == {update_state(state, busy_order, vehicles, W) :
                            busy_order \in Orders(busy_cps_now)}
  IN UNION {DiscriminationFree_sorted(infra, storage_system, vehicles, preload,
                                      step_length_hours, updated_states,
                                      sorted_busy_cps, W) :
              sorted_busy_cps \in {sort_cps(u, W) : u \in updated_states}}

\* ------------------------------------------------------------------------
\* Waiting queue (waiting_queue.py); a queue is [queue, next_leave]
\* ------------------------------------------------------------------------

\* WaitingQueue.determine_next_leaving_time
determine_next_leaving_time(queue) ==
  IF Len(queue) > 0
  THEN MinOfSet({queue[i].arrival_time + queue[i].parking_time : i \in 1..Len(queue)})
  ELSE FarFuture

\* variant of WaitingQueue.enqueue that leaves next_leave as it is
enqueue_keeps_next_leave(wq, maxsize, item) ==
  IF Len(wq.queue) < maxsize
  THEN [queue |-> Append(wq.queue, item), next_leave |-> wq.next_leave]
  ELSE wq

\* WaitingQueue.enqueue(item)
enqueue(wq, maxsize, item) ==
  IF Len(wq.queue) < maxsize
  THEN [queue |-> Append(wq.queue, item),
        next_leave |-> determine_next_leaving_time(Append(wq.queue, item))]
  ELSE wq

\* variant of WaitingQueue.dequeue() that removes the last item of the queue
dequeue_last(wq) ==
  IF Len(wq.queue) < 1 THEN wq
  ELSE [queue |-> SubSeq(wq.queue, 1, Len(wq.queue) - 1),
        next_leave |-> determine_next_leaving_time(wq.queue)]

\* WaitingQueue.dequeue(): the queue afterwards (the item returned is the
\* head); next_leave is determined before the head is popped
dequeue(wq) ==
  IF Len(wq.queue) < 1 THEN wq
  ELSE [queue |-> Tail(wq.queue), next_leave |-> determine_next_leaving_time(wq.queue)]

\* variant of WaitingQueue.empty() that keeps the queue
empty_keeps(wq) == wq

\* WaitingQueue.empty()
empty(wq) == [wq EXCEPT !.queue = << >>]

\* ------------------------------------------------------------------------
\* Simulation (simulate.py)
\* ------------------------------------------------------------------------

\* time_step.hour of a time in ticks is the time modulo the hours of a day
HoursPerDay == 24

\* ------------------------------------------------------------------------
\* Results (result.py)
\* ------------------------------------------------------------------------

\* 'cp ' + str(ChargingPoint.counter) of the charging points of a tree that
\* set_up_infrastructure builds when the class counter stands at counter:
\* every ChargingPoint made raises the counter by one
cp_ids(infra, counter) == [cp \in DOMAIN infra.cp |-> counter + cp - 1]

\* variant of store_power_charging_points that follows its docstring: a
\* power is stored "if the assigned power is not 0" and on the last step
store_power_charging_points_nonzero(result, power_charging_points, ids, pos, is_last_step) ==
  LET cps == DOMAIN power_charging_points
      kept(cp) == ids[cp] \in DOMAIN result.power_charging_points
                  /\ ~is_last_step /\ power_charging_points[cp] = float_zero
      stored == {ids[cp] : cp \in {c \in cps : ~kept(c)}}
      cp_of(id) == CHOOSE cp \in cps : ids[cp] = id
  IN [power_charging_points |->
        [id \in DOMAIN result.power_charging_points \cup {ids[cp] : cp \in cps} |->
           LET old == IF id \in DOMAIN result.power_charging_points
                      THEN result.power_charging_points[id] ELSE << >>
           IN IF id \in stored THEN (pos :> power_charging_points[cp_of(id)]) @@ old
              ELSE old],
      last_stored_cp_power |->
        [id \in DOMAIN result.last_stored_cp_power \cup stored |->
           IF id \in stored THEN power_charging_points[cp_of(id)]
           ELSE result.last_stored_cp_power[id]]]

\* variant of store_power_charging_points that treats the last step like
\* every other step
store_power_charging_points_no_last(result, power_charging_points, ids, pos, is_last_step) ==
  LET cps == DOMAIN power_charging_points
      kept(cp) == /\ ids[cp] \in DOMAIN result.power_charging_points
                  /\ ids[cp] \in DOMAIN result.last_stored_cp_power
                  /\ result.last_stored_cp_power[ids[cp]] = power_charging_points[cp]
      stored == {ids[cp] : cp \in {c \in cps : ~kept(c)}}
      cp_of(id) == CHOOSE cp \in cps : ids[cp] = id
  IN [power_charging_points |->
        [id \in DOMAIN result.power_charging_points \cup {ids[cp] : cp \in cps} |->
           LET old == IF id \in DOMAIN result.power_charging_points
                      THEN result.power_charging_points[id] ELSE << >>
           IN IF id \in stored THEN (pos :> power_charging_points[cp_of(id)]) @@ old
              ELSE old],
      last_stored_cp_power |->
        [id \in DOMAIN result.last_stored_cp_power \cup stored |->
           IF id \in stored THEN power_charging_points[cp_of(id)]
           ELSE result.last_stored_cp_power[id]]]

\* ElvisResult.store_power_charging_points(power_charging_points,
\* pos_current_time_stamp, is_last_step); result holds the dicts
\* power_charging_points (by cp.id, a dict from step to power) and
\* _last_stored_cp_power, ids the cp.id of the charging points.  A charging
\* point is skipped (continue) when its id is known, the step is not the
\* last and the power is the one stored last.
store_power_charging_points(result, power_charging_points, ids, pos, is_last_step) ==
  LET cps == DOMAIN power_charging_points
      kept(cp) == /\ ids[cp] \in DOMAIN result.power_charging_points
                  /\ ~is_last_step
                  /\ ids[cp] \in DOMAIN result.last_stored_cp_power
                  /\ result.last_stored_cp_power[ids[cp]] = power_charging_points[cp]
      stored == {ids[cp] : cp \in {c \in cps : ~kept(c)}}
      cp_of(id) == CHOOSE cp \in cps : ids[cp] = id
  IN [power_charging_points |->
        [id \in DOMAIN result.power_charging_points \cup {ids[cp] : cp \in cps} |->
           LET old == IF id \in DOMAIN result.power_charging_points
                      THEN result.power_charging_points[id] ELSE << >>
           IN IF id \in stored THEN (pos :> power_charging_points[cp_of(id)]) @@ old
              ELSE old],
      last_stored_cp_power |->
        [id \in DOMAIN result.last_stored_cp_power \cup stored |->
           IF id \in stored THEN power_charging_points[cp_of(id)]
           ELSE result.last_stored_cp_power[id]]]

\* ElvisResult.store_power_storage_systems(power_storage_systems,
\* pos_current_time_stamp, is_last_step); result holds the dicts
\* power_storage_systems and _last_stored_storage_power, ids the id of the
\* storage systems
store_power_storage_systems(result, power_storage_systems, ids, pos, is_last_step) ==
  LET systems == DOMAIN power_storage_systems
      kept(st) == /\ ids[st] \in DOMAIN result.power_storage_systems
                  /\ ~is_last_step
                  /\ ids[st] \in DOMAIN result.last_stored_storage_power
                  /\ result.last_stored_storage_power[ids[st]] = power_storage_systems[st]
      stored == {ids[st] : st \in {x \in systems : ~kept(x)}}
      st_of(id) == CHOOSE st \in systems : ids[st] = id
  IN [power_storage_systems |->
        [id \in DOMAIN result.power_storage_systems \cup {ids[st] : st \in systems} |->
           LET old == IF id \in DOMAIN result.power_storage_systems
                      THEN result.power_storage_systems[id] ELSE << >>
           IN IF id \in stored THEN (pos :> power_storage_systems[st_of(id)]) @@ old
              ELSE old],
      last_stored_storage_power |->
        [id \in DOMAIN result.last_stored_storage_power \cup stored |->
           IF id \in stored THEN power_storage_systems[st_of(id)]
           ELSE result.last_stored_storage_power[id]]]

\* the id of the storage systems of a tree: 'storage ' and their number
storage_ids(infra) == [st \in DOMAIN infra.storage |-> st]

\* ElvisResult.aggregate_load_profile(num_simulation_steps), the loop over
\* the time steps: the dict power holds, for every cp id that had a key up
\* to time_step, the value at its latest such key; the profile is the list
\* of sum(power.values()), added up in the order in which power got its
\* keys.  keys is the order in which power_charging_points lists its cp ids.
RECURSIVE aggregate_load_profile_loop(_, _, _, _, _)
aggregate_load_profile_loop(traces, keys, power, time_step, num_simulation_steps) ==
  IF time_step >= num_simulation_steps THEN << >>
  ELSE LET hit == {cp \in DOMAIN traces : time_step \in DOMAIN traces[cp]}
           known == SeqToSet(power.keys)
           now == [keys |-> power.keys
                            \o SelectSeq(keys, LAMBDA cp : cp \in hit /\ cp \notin known),
                   values |-> [cp \in known \cup hit |->
                                 IF cp \in hit THEN traces[cp][time_step]
                                 ELSE power.values[cp]]]
       IN <<add_in_order(float_zero, now.values, now.keys)>>
          \o aggregate_load_profile_loop(traces, keys, now, time_step + 1,
                                         num_simulation_steps)

\* ElvisResult.aggregate_load_profile(num_simulation_steps)
aggregate_load_profile(traces, keys, num_simulation_steps) ==
  aggregate_load_profile_loop(traces, keys, [keys |-> << >>, values |-> << >>], 0,
                              num_simulation_steps)

\* sum(load_profile) of a list of floats
RECURSIVE sum_list(_, _)
sum_list(load_profile, n) ==
  IF n = 0 THEN float_zero
  ELSE float_add(sum_list(load_profile, n - 1), load_profile[n])

\* ElvisResult.total_energy_charged(resolution, num_simulation_steps): the
\* profile is aggregated anew only if aggregated_load_profile is not None;
\* sum(load_profile) of a profile that is None raises TypeError.  energy =
\* sum(load_profile), then energy /= 3600 / resolution.total_seconds().
total_energy_charged(profile, traces, keys, resolution, num_simulation_steps) ==
  LET load_profile == IF profile # << >>
                      THEN <<aggregate_load_profile(traces, keys, num_simulation_steps)>>
                      ELSE profile
  IN [aggregated_load_profile |-> load_profile,
      raised |-> load_profile = << >>,
      energy |-> IF load_profile = << >> THEN float_zero
                 ELSE float_div(sum_list(load_profile[1], Len(load_profile[1])),
                                float_div(float(3600),
                                          float(resolution * SecondsPerTick)))]

\* scenario.transformer_preload of the runs below: early is the preload, in
\* kW, of every step before FirstArrivalStep, late the preloads of the
\* steps from there on, taken in turn
preload_list(early, late, steps) ==
  [i \in 1..steps |->
     IF i - 1 < FirstArrivalStep THEN early
     ELSE late[((i - 1 - FirstArrivalStep) % Len(late)) + 1]]

\* transformer preloads: none, 0.375 kW throughout, and 8.75 kW and 0 kW
\* in turn
PreloadLists ==
  {preload_list(float_zero, <<float_zero>>, NumSteps),
   preload_list(eighths(3), <<eighths(3)>>, NumSteps),
   preload_list(float_zero, <<eighths(70), float_zero>>, NumSteps)}

\* the preloads of the runs that walk the tree with three charging points
TightPreloadLists ==
  {preload_list(float_zero, <<float_zero>>, NumSteps),
   preload_list(float_zero, <<eighths(70), float_zero>>, NumSteps)}

\* the policies whose schedule produces no assignment
StubPolicies == {"WithStorage", "Optimized"}

\* what an arriving charging event can be: parking_time in ticks, soc at
\* arrival, vehicle type
EventKinds ==
  {[parking_time |-> 2, soc |-> float_div(float(13), float(32)), vehicle_type |-> "vtA"],
   [parking_time |-> 7, soc |-> eighths(1), vehicle_type |-> "vtB"]}

\* charging events whose power_to_charge_full has more than three decimals:
\* soc 0.90625 asks for 0.1875 kW
CutKinds ==
  {[parking_time |-> 7, soc |-> float_div(float(29), float(32)), vehicle_type |-> "vtB"],
   [parking_time |-> 7, soc |-> eighths(6), vehicle_type |-> "vtB"]}

\* the runs simulated: a scenario, the log argument, the number of time
\* steps and the value of the class attribute ChargingPoint.counter when
\* simulate is called (1 in a fresh process).  The charging events of a
\* scenario arrive from first_arrival_step on and are of the event_kinds.
\* Every policy on the infrastructure with two charging points and a
\* storage; the policies that walk the tree on the one with three charging
\* points; on the one with a single charging point, the options of the
\* queue, of leaving, of the opening hours and of logging; a short run;
\* Uncontrolled on three charging points, in a fresh process and after a
\* first simulation of the same scenario in the same process, which left
\* the counter behind its charging points; the two policies without a
\* schedule; and FCFS on a transformer that a preload of 7 kW leaves 0.5 kW
\* of
Runs ==
  [scenario : [scheduling_policy : {"Uncontrolled", "FCFS", "DiscriminationFree"},
               df_charging_period : {4},
               resolution : {2},
               disconnect_by_time : {TRUE},
               queue_length : {1},
               opening_hours : {<< >>},
               infrastructure : {InfraStorage},
               transformer_preload : PreloadLists,
               first_arrival_step : {FirstArrivalStep},
               event_kinds : {EventKinds}],
   log : {FALSE},
   total_time_steps : {NumSteps},
   ChargingPoint_counter : {1}]
  \cup
  [scenario : [scheduling_policy : {"FCFS", "DiscriminationFree"},
               df_charging_period : {4},
               resolution : {2},
               disconnect_by_time : {TRUE},
               queue_length : {1},
               opening_hours : {<< >>},
               infrastructure : {InfraTight},
               transformer_preload : TightPreloadLists,
               first_arrival_step : {FirstArrivalStep},
               event_kinds : {EventKinds}],
   log : {FALSE},
   total_time_steps : {NumSteps},
   ChargingPoint_counter : {1}]
  \cup
  [scenario : [scheduling_policy : {"FCFS"},
               df_charging_period : {4},
               resolution : {2},
               disconnect_by_time : BOOLEAN,
               queue_length : {0, 1, 2},
               opening_hours : {<< >>, <<2, 10>>},
               infrastructure : {InfraOne},
               transformer_preload : {preload_list(float_zero, <<float_zero>>, NumSteps)},
               first_arrival_step : {FirstArrivalStep},
               event_kinds : {EventKinds}],
   log : BOOLEAN,
   total_time_steps : {NumSteps},
   ChargingPoint_counter : {1}]
  \cup
  [scenario : [scheduling_policy : {"Uncontrolled"},
               df_charging_period : {4},
               resolution : {2},
               disconnect_by_time : {TRUE},
               queue_length : {0},
               opening_hours : {<< >>},
               infrastructure : {InfraOne},
               transformer_preload : {preload_list(float_zero, <<float_zero>>, ShortSteps)},
               first_arrival_step : {FirstArrivalStep},
               event_kinds : {EventKinds}],
   log : {FALSE},
   total_time_steps : {ShortSteps},
   ChargingPoint_counter : {1}]
  \cup
  [scenario : [scheduling_policy : {"Uncontrolled"},
               df_charging_period : {4},
               resolution : {2},
               disconnect_by_time : {TRUE},
               queue_length : {1},
               opening_hours : {<< >>},
               infrastructure : {InfraTight},
               transformer_preload : {preload_list(float_zero, <<float_zero>>, NumSteps)},
               first_arrival_step : {FirstArrivalStep},
               event_kinds : {EventKinds}],
   log : {FALSE},
   total_time_steps : {NumSteps},
   ChargingPoint_counter : {1, 1 + Len(InfraTight.cp)}]
  \cup
  [scenario : [scheduling_policy : StubPolicies,
               df_charging_period : {4},
               resolution : {2},
               disconnect_by_time : {TRUE},
               queue_length : {1},
               opening_hours : {<< >>},
               infrastructure : {InfraOne},
               transformer_preload : {preload_list(float_zero, <<float_zero>>, NumSteps)},
               first_arrival_step : {FirstArrivalStep},
               event_kinds : {EventKinds}],
   log : {FALSE},
   total_time_steps : {NumSteps},
   ChargingPoint_counter : {1}]
  \cup
  [scenario : [scheduling_policy : {"FCFS"},
               df_charging_period : {4},
               resolution : {2},
               disconnect_by_time : {TRUE},
               queue_length : {0},
               opening_hours : {<< >>},
               infrastructure : {InfraTight},
               transformer_preload : {preload_list(float(7), <<float(7)>>, NumSteps)},
               first_arrival_step : {FirstArrivalStep},
               event_kinds : {CutKinds}],
   log : {FALSE},
   total_time_steps : {NumSteps},
   ChargingPoint_counter : {1}]

\* ChargingEvent(arrival_time, parking_time, soc, vehicle_type), with the
\* id 'Charging event: n' and soc_target = 1.0
ChargingEvent(n, arrival_time, kind) ==
  [id |-> n, arrival_time |-> arrival_time, parking_time |-> kind.parking_time,
   leaving_time |-> arrival_time + kind.parking_time,
   soc |-> kind.soc, soc_target |-> float(1),
   vehicle_type |-> kind.vehicle_type]

VARIABLES
  scenario,                \* the ScenarioRealisation
  log,                     \* simulate(..., log)
  total_time_steps,        \* len(time_steps)
  time_step_pos,           \* index of the current time step
  pc,                      \* the call of the loop body that comes next
  free_cps, busy_cps,      \* the two sets of charging points
  connected_vehicle,       \* cp.connected_vehicle of every charging point
  waiting_queue,           \* WaitingQueue: queue and next_leave
  charging_event_counter,  \* index of the next charging event
  counter_rejections,
  assign_power,            \* what schedule returned for this step
  preload,                 \* transformer_preload[time_step_pos]
  storage,                 \* the StationaryBattery of the storage systems of
                           \* the tree (none or one)
  state,                   \* state of the DiscriminationFree policy
  charged_log,             \* per charging point, by how much schedule raised
                           \* times_charged in each of the last steps (at most
                           \* a charging period of steps) its vehicle was there
  cp_id,                   \* cp.id of every charging point
  power_charging_points,   \* results.power_charging_points
  last_stored_cp_power,    \* results._last_stored_cp_power
  dense_load,              \* per step stored, assign_power['cps']
  energy_charged,          \* sum of soc gain * capacity of all vehicles so far
  aggregated_load_profile, \* results.aggregated_load_profile: << >> is None,
                           \* <<profile>> a profile
  total_energy,            \* what the last call of total_energy_charged did
  power_storage_systems,   \* results.power_storage_systems
  last_stored_storage_power, \* results._last_stored_storage_power
  charging_periods,        \* charging_periods: event id -> arrival, last_charged
  scheduled,               \* the ids of the vehicles that were at a busy charging
                           \* point when schedule was called
  powered,                 \* the pairs <<event id, time step>> of the vehicles and
                           \* steps for which schedule returned a power above 0
  call                     \* a call of a library function outside a simulation:
                           \* its arguments, its local state and what it returned

vars == <<scenario, log, total_time_steps, time_step_pos, pc, free_cps, busy_cps,
          connected_vehicle, waiting_queue, charging_event_counter, counter_rejections,
          assign_power, preload, storage, state, charged_log, cp_id,
          power_charging_points, last_stored_cp_power, dense_load, energy_charged,
          aggregated_load_profile, total_energy, power_storage_systems,
          last_stored_storage_power, charging_periods, scheduled, powered,
          call>>

\* the charging points of the infrastructure
CPs == DOMAIN scenario.infrastructure.cp

\* scenario.transformer_preload[i]
transformer_preload(i) == scenario.transformer_preload[i + 1]

\* scenario.resolution.total_seconds() / 3600
step_length_hours == total_hours(scenario.resolution)

\* time_steps[time_step_pos]
time_step == time_step_pos * scenario.resolution

\* within_opening_hours of the current time step
within_opening_hours ==
  IF scenario.opening_hours = << >> THEN TRUE
  ELSE LET cur_time_hours == time_step % HoursPerDay
       IN scenario.opening_hours[1] <= cur_time_hours
          /\ cur_time_hours <= scenario.opening_hours[2]

\* int(0.05 * total_time_steps), the divisor of the progress test
progress_interval == (ProgressPercent * total_time_steps) \div 100

\* no library function is being called
no_call == [op |-> "none"]

\* the state in which simulate_async enters its loop for a run
SimulationStart(run) ==
  /\ scenario = run.scenario
  /\ log = run.log
  /\ total_time_steps = run.total_time_steps
  /\ cp_id = cp_ids(run.scenario.infrastructure, run.ChargingPoint_counter)
  /\ time_step_pos = 0
  /\ free_cps = CPs
  /\ busy_cps = {}
  /\ connected_vehicle = [cp \in CPs |-> None]
  /\ waiting_queue = [queue |-> << >>, next_leave |-> FarFuture]
  /\ charging_event_counter = 0
  /\ counter_rejections = 0
  /\ assign_power = no_power(scenario.infrastructure)
  /\ preload = float_zero
  /\ storage = scenario.infrastructure.storage
  /\ state = state_None
  /\ charged_log = [cp \in CPs |-> << >>]
  /\ power_charging_points = << >>
  /\ last_stored_cp_power = << >>
  /\ dense_load = << >>
  /\ energy_charged = float_zero
  /\ aggregated_load_profile = << >>
  /\ total_energy = [called |-> FALSE, raised |-> FALSE, energy |-> float_zero]
  /\ power_storage_systems = << >>
  /\ last_stored_storage_power = << >>
  /\ charging_periods = << >>
  /\ scheduled = {}
  /\ powered = {}

Init ==
  /\ \E run \in Runs : SimulationStart(run)
  /\ pc = "update_queue"
  /\ call = no_call

\* update_queue: the events that stay when the overdue ones are popped
RECURSIVE without_overdue(_, _)
without_overdue(queue, current_time_step) ==
  IF queue = << >> THEN << >>
  ELSE IF Head(queue).leaving_time <= current_time_step
  THEN without_overdue(Tail(queue), current_time_step)
  ELSE <<Head(queue)>> \o without_overdue(Tail(queue), current_time_step)

\* update_queue(waiting_queue, current_time_step, by_time,
\* within_opening_hours, log): the overdue events are popped inside the
\* logging branch
update_queue(wq, current_time_step, by_time, within, logging) ==
  LET emptied == IF ~within THEN empty(wq) ELSE wq
  IN IF by_time /\ current_time_step >= emptied.next_leave
     THEN LET queue == IF logging THEN without_overdue(emptied.queue, current_time_step)
                       ELSE emptied.queue
          IN [queue |-> queue, next_leave |-> determine_next_leaving_time(queue)]
     ELSE emptied

\* round(soc, 3): the double of the thousandths the soc is rounded to
round3(soc) == float_div(float(py_round(soc, 1000)), float(1000))

\* update_cps: does the vehicle at the charging point have to leave
must_disconnect(vehicle, current_time_step, by_time) ==
  IF by_time THEN vehicle.leaving_time <= current_time_step
  ELSE float_le(vehicle.soc_target, round3(vehicle.soc))

\* variant of the loop of update_cps that examines the vehicle taken from the
\* queue in the same pass: if it has to leave too, the charging point is freed
RECURSIVE update_cps_loop_reexamines(_, _, _, _)
update_cps_loop_reexamines(sim, order, current_time_step, by_time) ==
  IF order = << >> THEN sim
  ELSE LET cp == Head(order)
           leaves == must_disconnect(sim.connected_vehicle[cp], current_time_step, by_time)
           next == IF ~leaves THEN sim
                   ELSE IF Len(sim.waiting_queue.queue) > 0
                           /\ ~must_disconnect(Head(sim.waiting_queue.queue),
                                               current_time_step, by_time)
                   THEN [connected_vehicle |->
                           [sim.connected_vehicle EXCEPT ![cp] = Head(sim.waiting_queue.queue)],
                         waiting_queue |-> dequeue(sim.waiting_queue),
                         temp_switch_cps |-> sim.temp_switch_cps]
                   ELSE [connected_vehicle |-> [sim.connected_vehicle EXCEPT ![cp] = None],
                         waiting_queue |-> dequeue(sim.waiting_queue),
                         temp_switch_cps |-> sim.temp_switch_cps \cup {cp}]
       IN update_cps_loop_reexamines(next, Tail(order), current_time_step, by_time)

\* update_cps, the loop over busy_cps in the order the set is listed: a
\* vehicle that has to leave is disconnected and the head of the queue, if
\* any, connected in its place; sim holds connected_vehicle, waiting_queue
\* and temp_switch_cps
RECURSIVE update_cps_loop(_, _, _, _)
update_cps_loop(sim, order, current_time_step, by_time) ==
  IF order = << >> THEN sim
  ELSE LET cp == Head(order)
           leaves == must_disconnect(sim.connected_vehicle[cp], current_time_step, by_time)
           next == IF ~leaves THEN sim
                   ELSE IF Len(sim.waiting_queue.queue) > 0
                   THEN [connected_vehicle |->
                           [sim.connected_vehicle EXCEPT ![cp] = Head(sim.waiting_queue.queue)],
                         waiting_queue |-> dequeue(sim.waiting_queue),
                         temp_switch_cps |-> sim.temp_switch_cps]
                   ELSE [connected_vehicle |-> [sim.connected_vehicle EXCEPT ![cp] = None],
                         waiting_queue |-> sim.waiting_queue,
                         temp_switch_cps |-> sim.temp_switch_cps \cup {cp}]
       IN update_cps_loop(next, Tail(order), current_time_step, by_time)

\* the loop head fails: time_step_pos % int(0.05 * total_time_steps) with a
\* divisor of 0 (ZeroDivisionError)
ProgressDivisionByZero ==
  /\ pc = "update_queue"
  /\ progress_interval = 0
  /\ pc' = "halted"
  /\ UNCHANGED <<scenario, log, total_time_steps, time_step_pos, free_cps, busy_cps,
                 connected_vehicle, waiting_queue, charging_event_counter,
                 counter_rejections, assign_power, preload, storage, state,
                 charged_log, cp_id,
                 power_charging_points, last_stored_cp_power, dense_load,
                 energy_charged,
                 aggregated_load_profile, total_energy,
                 call,
                 power_storage_systems, last_stored_storage_power,
                 charging_periods, scheduled, powered>>

\* loop head and update_queue(...)
UpdateQueue ==
  /\ pc = "update_queue"
  /\ progress_interval # 0
  /\ waiting_queue' = update_queue(waiting_queue, time_step, scenario.disconnect_by_time,
                                   within_opening_hours, log)
  /\ pc' = "update_cps"
  /\ UNCHANGED <<scenario, log, total_time_steps, time_step_pos, free_cps, busy_cps,
                 connected_vehicle, charging_event_counter, counter_rejections,
                 assign_power, preload, storage, state,
                 charged_log, cp_id,
                 power_charging_points, last_stored_cp_power, dense_load,
                 energy_charged,
                 aggregated_load_profile, total_energy,
                 call,
                 power_storage_systems, last_stored_storage_power,
                 charging_periods, scheduled, powered>>

\* update_cps(...)
UpdateCps ==
  /\ pc = "update_cps"
  /\ IF ~within_opening_hours
     THEN /\ connected_vehicle' = [cp \in CPs |-> None]
          /\ busy_cps' = {}
          /\ free_cps' = free_cps \cup busy_cps
          /\ UNCHANGED waiting_queue
     ELSE \E order \in Orders(busy_cps) :
            LET sim == update_cps_loop([connected_vehicle |-> connected_vehicle,
                                        waiting_queue |-> waiting_queue,
                                        temp_switch_cps |-> {}],
                                       order, time_step, scenario.disconnect_by_time)
            IN /\ connected_vehicle' = sim.connected_vehicle
               /\ waiting_queue' = sim.waiting_queue
               /\ busy_cps' = busy_cps \ sim.temp_switch_cps
               /\ free_cps' = free_cps \cup sim.temp_switch_cps
  /\ pc' = "arrivals"
  /\ UNCHANGED <<scenario, log, total_time_steps, time_step_pos, charging_event_counter,
                 counter_rejections, assign_power, preload, storage, state,
                 charged_log, cp_id,
                 power_charging_points, last_stored_cp_power, dense_load,
                 energy_charged,
                 aggregated_load_profile, total_energy,
                 call,
                 power_storage_systems, last_stored_storage_power,
                 charging_periods, scheduled, powered>>

\* variant of handle_car_arrival that puts the event in the queue whenever
\* no charging point is free, whatever the size of the queue
handle_car_arrival_unbounded(event, cp) ==
  IF Cardinality(free_cps) > 0 /\ within_opening_hours
  THEN [free_cps |-> free_cps \ {cp}, busy_cps |-> busy_cps \cup {cp},
        connected_vehicle |-> [connected_vehicle EXCEPT ![cp] = event],
        waiting_queue |-> waiting_queue, counter_rejections |-> counter_rejections]
  ELSE IF within_opening_hours
  THEN LET queue == Append(waiting_queue.queue, event)
       IN [free_cps |-> free_cps, busy_cps |-> busy_cps,
           connected_vehicle |-> connected_vehicle,
           waiting_queue |-> [queue |-> queue,
                              next_leave |-> determine_next_leaving_time(queue)],
           counter_rejections |-> counter_rejections]
  ELSE [free_cps |-> free_cps, busy_cps |-> busy_cps,
        connected_vehicle |-> connected_vehicle,
        waiting_queue |-> waiting_queue, counter_rejections |-> counter_rejections + 1]

\* variant of handle_car_arrival that connects and enqueues outside the
\* opening hours too
handle_car_arrival_any_hour(event, cp) ==
  IF Cardinality(free_cps) > 0
  THEN [free_cps |-> free_cps \ {cp}, busy_cps |-> busy_cps \cup {cp},
        connected_vehicle |-> [connected_vehicle EXCEPT ![cp] = event],
        waiting_queue |-> waiting_queue, counter_rejections |-> counter_rejections]
  ELSE IF ~(Len(waiting_queue.queue) = scenario.queue_length)
          /\ scenario.queue_length > 0
  THEN [free_cps |-> free_cps, busy_cps |-> busy_cps,
        connected_vehicle |-> connected_vehicle,
        waiting_queue |-> enqueue(waiting_queue, scenario.queue_length, event),
        counter_rejections |-> counter_rejections]
  ELSE [free_cps |-> free_cps, busy_cps |-> busy_cps,
        connected_vehicle |-> connected_vehicle,
        waiting_queue |-> waiting_queue, counter_rejections |-> counter_rejections + 1]

\* variant of handle_car_arrival that connects the event to a free charging
\* point and leaves the charging point in free_cps
handle_car_arrival_keeps_free(event, cp) ==
  IF Cardinality(free_cps) > 0 /\ within_opening_hours
  THEN [free_cps |-> free_cps, busy_cps |-> busy_cps \cup {cp},
        connected_vehicle |-> [connected_vehicle EXCEPT ![cp] = event],
        waiting_queue |-> waiting_queue, counter_rejections |-> counter_rejections]
  ELSE IF ~(Len(waiting_queue.queue) = scenario.queue_length)
          /\ scenario.queue_length > 0 /\ within_opening_hours
  THEN [free_cps |-> free_cps, busy_cps |-> busy_cps,
        connected_vehicle |-> connected_vehicle,
        waiting_queue |-> enqueue(waiting_queue, scenario.queue_length, event),
        counter_rejections |-> counter_rejections]
  ELSE [free_cps |-> free_cps, busy_cps |-> busy_cps,
        connected_vehicle |-> connected_vehicle,
        waiting_queue |-> waiting_queue, counter_rejections |-> counter_rejections + 1]

\* handle_car_arrival(...) for the event charging_events[charging_event_counter],
\* which arrives at this time step; cp is what free_cps.pop() returns
handle_car_arrival(event, cp) ==
  IF Cardinality(free_cps) > 0 /\ within_opening_hours
  THEN [free_cps |-> free_cps \ {cp}, busy_cps |-> busy_cps \cup {cp},
        connected_vehicle |-> [connected_vehicle EXCEPT ![cp] = event],
        waiting_queue |-> waiting_queue, counter_rejections |-> counter_rejections]
  ELSE IF ~(Len(waiting_queue.queue) = scenario.queue_length)
          /\ scenario.queue_length > 0 /\ within_opening_hours
  THEN [free_cps |-> free_cps, busy_cps |-> busy_cps,
        connected_vehicle |-> connected_vehicle,
        waiting_queue |-> enqueue(waiting_queue, scenario.queue_length, event),
        counter_rejections |-> counter_rejections]
  ELSE [free_cps |-> free_cps, busy_cps |-> busy_cps,
        connected_vehicle |-> connected_vehicle,
        waiting_queue |-> waiting_queue, counter_rejections |-> counter_rejections + 1]

\* the while loop of simulate_async: the next charging event arrives now
HandleCarArrival ==
  /\ pc = "arrivals"
  /\ charging_event_counter < MaxEvents
  /\ time_step_pos >= scenario.first_arrival_step
  /\ \E kind \in scenario.event_kinds :
       \E cp \in (IF free_cps = {} THEN {0} ELSE free_cps) :
         LET event == ChargingEvent(charging_event_counter + 1, time_step, kind)
             sim == handle_car_arrival(event, cp)
         IN /\ free_cps' = sim.free_cps
            /\ busy_cps' = sim.busy_cps
            /\ connected_vehicle' = sim.connected_vehicle
            /\ waiting_queue' = sim.waiting_queue
            /\ counter_rejections' = sim.counter_rejections
  /\ charging_event_counter' = charging_event_counter + 1
  /\ UNCHANGED <<scenario, log, total_time_steps, time_step_pos, pc, assign_power,
                 preload, storage, state,
                 charged_log, cp_id,
                 power_charging_points, last_stored_cp_power, dense_load,
                 energy_charged,
                 aggregated_load_profile, total_energy,
                 call,
                 power_storage_systems, last_stored_storage_power,
                 charging_periods, scheduled, powered>>

\* the while loop of simulate_async ends: no further charging event arrives
\* at this time step
NoArrival ==
  /\ pc = "arrivals"
  /\ pc' = "schedule"
  /\ UNCHANGED <<scenario, log, total_time_steps, time_step_pos, free_cps, busy_cps,
                 connected_vehicle, waiting_queue, charging_event_counter,
                 counter_rejections, assign_power, preload, storage, state,
                 charged_log, cp_id,
                 power_charging_points, last_stored_cp_power, dense_load,
                 energy_charged,
                 aggregated_load_profile, total_energy,
                 call,
                 power_storage_systems, last_stored_storage_power,
                 charging_periods, scheduled, powered>>

\* time_steps_to_charge_in_a_row of the scenario
W_steps == time_steps_to_charge_in_a_row(scenario.df_charging_period, scenario.resolution)

\* the id the state holds for a charging point, 0 if it holds none
state_id(st, cp) ==
  IF cp \in state_keys(st)
  THEN st.entries[CHOOSE j \in 1..Len(st.entries) : st.entries[j].cp = cp].id
  ELSE 0

\* observer of DiscriminationFree.schedule: for every charging point in the
\* state, the raise of times_charged by the loop of schedule (from the state
\* update_state left to the state schedule leaves) is appended to its log;
\* the log keeps the last W raises and starts anew with a new vehicle
log_charged(old_log, before, updated, after, W) ==
  [cp \in DOMAIN old_log |->
     IF cp \notin state_keys(after) THEN << >>
     ELSE LET inc == times_charged(after, cp) - times_charged(updated, cp)
              kept == IF state_id(before, cp) = state_id(after, cp) THEN old_log[cp]
                      ELSE << >>
              all == Append(kept, inc)
          IN IF Len(all) > W THEN Tail(all) ELSE all]

\* variant of update_last_charged that leaves the entry of a vehicle that
\* has one as it is
update_last_charged_keeps_first(charging_times, assign_power_cps, vehicles, now) ==
  LET cps_with_power == {cp \in DOMAIN assign_power_cps :
                           float_lt(float_zero, assign_power_cps[cp])}
      charged == {vehicles[cp].id : cp \in cps_with_power}
  IN [ce \in DOMAIN charging_times \cup charged |->
        IF ce \in DOMAIN charging_times THEN charging_times[ce]
        ELSE [arrival |-> now, last_charged |-> now]]

\* update_last_charged(charging_times, assign_power_cps, time_step): every
\* charging point with a power above 0 gets the time step as last_charged
\* of its vehicle, and as arrival too if the vehicle has no entry yet
update_last_charged(charging_times, assign_power_cps, vehicles, now) ==
  LET cps_with_power == {cp \in DOMAIN assign_power_cps :
                           float_lt(float_zero, assign_power_cps[cp])}
      charged == {vehicles[cp].id : cp \in cps_with_power}
  IN [ce \in DOMAIN charging_times \cup charged |->
        IF ce \notin charged THEN charging_times[ce]
        ELSE IF ce \notin DOMAIN charging_times
        THEN [arrival |-> now, last_charged |-> now]
        ELSE [charging_times[ce] EXCEPT !.last_charged = now]]

\* what schedule returns for a policy that keeps no state
stateless(returned, policy_state) ==
  {[assign_power |-> assigned, updated |-> policy_state, state |-> policy_state] :
     assigned \in returned}

\* scenario.scheduling_policy.schedule(scenario, free_cps, busy_cps,
\* time_step_pos): what the call can do, each with the assignment and the
\* state of the policy after update_state and after the call
scheduling_policy_schedule(policy, infra, storage_system, busy_cps_now, vehicles, preload_i, hours_of_step, policy_state, W) ==
  IF policy = "Uncontrolled"
  THEN stateless(Uncontrolled_schedule(infra, storage_system, busy_cps_now, vehicles,
                                       hours_of_step), policy_state)
  ELSE IF policy = "FCFS"
  THEN stateless(FCFS_schedule(infra, storage_system, busy_cps_now, vehicles, preload_i,
                               hours_of_step), policy_state)
  ELSE DiscriminationFree_schedule(infra, storage_system, busy_cps_now, vehicles,
                                   preload_i, hours_of_step, policy_state, W)

\* scenario.scheduling_policy.schedule(scenario, free_cps, busy_cps,
\* time_step_pos), which reads transformer_preload[time_step_pos], and
\* update_last_charged(charging_periods, assign_power['cps'], time_step) if
\* a charging point is busy
Schedule ==
  /\ pc = "schedule"
  /\ scenario.scheduling_policy \notin StubPolicies
  /\ \E res \in scheduling_policy_schedule(
                  scenario.scheduling_policy, scenario.infrastructure, storage,
                  busy_cps, connected_vehicle, transformer_preload(time_step_pos),
                  step_length_hours, state, W_steps) :
       /\ assign_power' = res.assign_power
       /\ state' = res.state
       /\ charged_log' =
            IF scenario.scheduling_policy = "DiscriminationFree"
            THEN log_charged(charged_log, state, res.updated, res.state, W_steps)
            ELSE charged_log
       /\ charging_periods' =
            IF Cardinality(busy_cps) > 0
            THEN update_last_charged(charging_periods, res.assign_power.cps,
                                     connected_vehicle, time_step)
            ELSE charging_periods
       /\ powered' = powered \cup
            {<<connected_vehicle[cp].id, time_step>> :
               cp \in {c \in busy_cps : float_lt(float_zero, res.assign_power.cps[c])}}
  /\ preload' = transformer_preload(time_step_pos)
  /\ scheduled' = scheduled \cup {connected_vehicle[cp].id : cp \in busy_cps}
  /\ pc' = "charge"
  /\ UNCHANGED <<scenario, log, total_time_steps, time_step_pos, free_cps, busy_cps,
                 connected_vehicle, waiting_queue, charging_event_counter,
                 counter_rejections, storage, cp_id, power_charging_points,
                 last_stored_cp_power, dense_load, energy_charged,
                 aggregated_load_profile, total_energy,
                 call,
                 power_storage_systems, last_stored_storage_power>>

\* scenario.scheduling_policy.schedule(...) of a policy without a schedule:
\* WithStorage.schedule returns None, and assign_power['cps'] raises
\* TypeError; Optimized.schedule takes the config only, and the call with
\* four arguments raises TypeError
ScheduleFails ==
  /\ pc = "schedule"
  /\ scenario.scheduling_policy \in StubPolicies
  /\ pc' = "halted"
  /\ scheduled' = scheduled \cup {connected_vehicle[cp].id : cp \in busy_cps}
  /\ UNCHANGED <<scenario, log, total_time_steps, time_step_pos, free_cps, busy_cps,
                 connected_vehicle, waiting_queue, charging_event_counter,
                 counter_rejections, assign_power, preload, storage, state,
                 charged_log, cp_id,
                 power_charging_points, last_stored_cp_power, dense_load,
                 energy_charged,
                 aggregated_load_profile, total_energy,
                 call,
                 power_storage_systems, last_stored_storage_power,
                 charging_periods,
                 powered>>

\* the energy the vehicles at the charging points 1 .. n gained: the sum of
\* (soc after - soc before) * capacity
RECURSIVE energy_gained(_, _, _)
energy_gained(before, after, n) ==
  IF n = 0 THEN float_zero
  ELSE float_add(energy_gained(before, after, n - 1),
                 float_mul(float_sub(after[n].soc, before[n].soc),
                           Battery(before[n].vehicle_type).capacity))

\* charge_connected_vehicles(assign_power['cps'], busy_cps, resolution, log):
\* the connected vehicles after the call
charge_connected_vehicles(vehicles, assign_power_cps, busy, hours_of_step) ==
  [cp \in DOMAIN vehicles |->
     IF cp \in busy
     THEN [vehicles[cp] EXCEPT
             !.soc = charge_vehicle(vehicles[cp], assign_power_cps[cp], hours_of_step)]
     ELSE vehicles[cp]]

\* charge_connected_vehicles(assign_power['cps'], busy_cps, resolution, log)
ChargeConnectedVehicles ==
  /\ pc = "charge"
  /\ \E charged \in {charge_connected_vehicles(connected_vehicle, assign_power.cps,
                                               busy_cps, step_length_hours)} :
       /\ connected_vehicle' = charged
       /\ energy_charged' =
            float_add(energy_charged,
                      energy_gained(connected_vehicle, charged, Len(charged)))
  /\ pc' = "charge_storage"
  /\ UNCHANGED <<scenario, log, total_time_steps, time_step_pos, free_cps, busy_cps,
                 waiting_queue, charging_event_counter, counter_rejections, assign_power,
                 preload, storage, state, charged_log, cp_id,
                 power_charging_points, last_stored_cp_power, dense_load,
                 aggregated_load_profile, total_energy,
                 call,
                 power_storage_systems, last_stored_storage_power,
                 charging_periods, scheduled, powered>>

\* the end of the loop body: the next time step, or the end of the run
next_pc == IF time_step_pos + 1 < total_time_steps THEN "update_queue" ELSE "done"

\* charge_storage, the branch of the charge: assign_power['storage'] is
\* what StationaryBattery.charge returned
charge_storage_charged(assigned, res) ==
  [storage |-> <<res.battery>>,
   assign_power |-> IF res.raised = "none"
                    THEN [assigned EXCEPT !.storage = <<res.returned>>]
                    ELSE assigned,
   raised |-> res.raised]

\* charge_storage, the branch of the discharge: assign_power stays
charge_storage_discharged(assigned, res) ==
  [storage |-> <<res.battery>>, assign_power |-> assigned, raised |-> res.raised]

\* charge_storage(assign_power, preload, step_length): the storage after
\* the call, assign_power after it and the exception raised
charge_storage(infra, storage_system, assigned, preload_i, hours_of_step) ==
  IF assigned.storage = << >>
  THEN [storage |-> storage_system, assign_power |-> assigned, raised |-> "none"]
  ELSE IF assigned.storage[1] = float_zero
  THEN charge_storage_charged(
         assigned,
         StationaryBattery_charge(
           storage_system[1],
           Transformer_max_hardware_power(infra, assigned.cps, preload_i),
           hours_of_step))
  ELSE charge_storage_discharged(
         assigned,
         StationaryBattery_discharge(
           storage_system[1], [assigned.storage[1] EXCEPT !.sign = 1], hours_of_step))

\* charge_storage(assign_power, preload, resolution), then
\* results.store_power_charging_points(assign_power['cps'], time_step_pos,
\* time_step_pos == total_time_steps-1), results.store_power_storage_systems(
\* assign_power['storage'], ...) and the end of the loop body.  An
\* exception of the battery (ValueError of discharge, AssertionError of
\* check_soc) ends the run before anything is stored.
ChargeStorage ==
  /\ pc = "charge_storage"
  /\ \E res \in {charge_storage(scenario.infrastructure, storage, assign_power, preload,
                                step_length_hours)} :
       /\ storage' = res.storage
       /\ assign_power' = res.assign_power
       /\ IF res.raised # "none"
          THEN /\ pc' = "halted"
               /\ UNCHANGED <<time_step_pos, power_charging_points, last_stored_cp_power,
                              dense_load, power_storage_systems,
                              last_stored_storage_power>>
          ELSE LET result == store_power_charging_points(
                               [power_charging_points |-> power_charging_points,
                                last_stored_cp_power |-> last_stored_cp_power],
                               res.assign_power.cps, cp_id, time_step_pos,
                               time_step_pos = total_time_steps - 1)
                   result_storage == store_power_storage_systems(
                               [power_storage_systems |-> power_storage_systems,
                                last_stored_storage_power |-> last_stored_storage_power],
                               res.assign_power.storage,
                               storage_ids(scenario.infrastructure),
                               time_step_pos, time_step_pos = total_time_steps - 1)
               IN /\ power_charging_points' = result.power_charging_points
                  /\ last_stored_cp_power' = result.last_stored_cp_power
                  /\ power_storage_systems' = result_storage.power_storage_systems
                  /\ last_stored_storage_power' =
                       result_storage.last_stored_storage_power
                  /\ dense_load' = Append(dense_load, res.assign_power.cps)
                  /\ time_step_pos' = IF next_pc = "done" THEN time_step_pos
                                      ELSE time_step_pos + 1
                  /\ pc' = next_pc
  /\ UNCHANGED <<scenario, log, total_time_steps, free_cps, busy_cps, connected_vehicle,
                 waiting_queue, charging_event_counter, counter_rejections, preload, state,
                 charged_log, cp_id, energy_charged,
                 aggregated_load_profile, total_energy,
                 call,
                 charging_periods, scheduled, powered>>

\* the orders in which the dict power_charging_points of the result can
\* list its cp ids: the order of the set assign_power['cps'] was built from
\* in the first time step, which is any, but the same in every call on the
\* result, so that a profile aggregated before is aggregated again
dict_orders ==
  {keys \in Orders(DOMAIN power_charging_points) :
     \/ aggregated_load_profile = << >>
     \/ aggregate_load_profile(power_charging_points, keys, total_time_steps)
          = aggregated_load_profile[1]}

\* results.aggregate_load_profile(num_simulation_steps) on the result of a
\* finished simulation; keys is the order in which the dict
\* power_charging_points lists its cp ids
AggregateLoadProfile ==
  /\ pc = "done"
  /\ \E keys \in dict_orders :
       aggregated_load_profile' =
         <<aggregate_load_profile(power_charging_points, keys, total_time_steps)>>
  /\ UNCHANGED <<scenario, log, total_time_steps, time_step_pos, pc, free_cps, busy_cps,
                 connected_vehicle, waiting_queue, charging_event_counter,
                 counter_rejections, assign_power, preload, storage, state,
                 charged_log, cp_id, power_charging_points, last_stored_cp_power,
                 dense_load, energy_charged, total_energy,
                 call,
                 power_storage_systems, last_stored_storage_power,
                 charging_periods, scheduled, powered>>

\* results.total_energy_charged(resolution, num_simulation_steps) on the
\* result of a finished simulation
TotalEnergyCharged ==
  /\ pc = "done"
  /\ \E keys \in dict_orders :
       LET res == total_energy_charged(aggregated_load_profile, power_charging_points,
                                       keys, scenario.resolution, total_time_steps)
       IN /\ aggregated_load_profile' = res.aggregated_load_profile
          /\ total_energy' = [called |-> TRUE, raised |-> res.raised,
                              energy |-> res.energy]
  /\ UNCHANGED <<scenario, log, total_time_steps, time_step_pos, pc, free_cps, busy_cps,
                 connected_vehicle, waiting_queue, charging_event_counter,
                 counter_rejections, assign_power, preload, storage, state,
                 charged_log, cp_id, power_charging_points, last_stored_cp_power,
                 dense_load, energy_charged,
                 call,
                 power_storage_systems, last_stored_storage_power,
                 charging_periods, scheduled, powered>>

Next ==
  \/ ProgressDivisionByZero
  \/ UpdateQueue
  \/ UpdateCps
  \/ HandleCarArrival
  \/ NoArrival
  \/ Schedule
  \/ ScheduleFails
  \/ ChargeConnectedVehicles
  \/ ChargeStorage

Spec == Init /\ [][Next]_vars

\* the runs whose results are read: those on the infrastructure with one
\* charging point and the one whose powers have more than three decimals
ResultRuns ==
  {run \in Runs : \/ run.scenario.infrastructure = InfraOne
                  \/ run.scenario.event_kinds = CutKinds}

InitResult ==
  /\ \E run \in ResultRuns : SimulationStart(run)
  /\ pc = "update_queue"
  /\ call = no_call

\* a simulation, and the calls of the methods of its result once it is
\* finished
NextResult ==
  \/ Next
  \/ AggregateLoadProfile
  \/ TotalEnergyCharged

SpecResult == InitResult /\ [][NextResult]_vars

\* the loop of simulate_async in a run of 20 time steps or more under a
\* policy that schedules: the progress test divides by int(0.05 *
\* total_time_steps) >= 1 and schedule returns an assignment
NextLoop ==
  \/ UpdateQueue
  \/ UpdateCps
  \/ HandleCarArrival
  \/ NoArrival
  \/ Schedule
  \/ ChargeConnectedVehicles
  \/ ChargeStorage

\* ------------------------------------------------------------------------
\* Library functions called outside a simulation
\* ------------------------------------------------------------------------

\* the run whose start state the simulation variables hold while library
\* functions are called; pc is "idle" then and no simulation step is taken
IdleRun == CHOOSE run \in Runs : run.total_time_steps = ShortSteps

\* the variables of the simulation while library functions are called
Idle == SimulationStart(IdleRun) /\ pc = "idle"

\* the variables of the simulation stay as they are
UnchangedSimulation ==
  UNCHANGED <<scenario, log, total_time_steps, time_step_pos, pc, free_cps, busy_cps,
              connected_vehicle, waiting_queue, charging_event_counter,
              counter_rejections, assign_power, preload, storage, state,
              charged_log, cp_id, power_charging_points, last_stored_cp_power,
              dense_load, energy_charged, aggregated_load_profile, total_energy,
              power_storage_systems, last_stored_storage_power, charging_periods,
              scheduled, powered>>

\* ---- distribution.py ----
\* A value is kept as the exact fraction [num, den]; x and y of the points
\* and the keys are integers.

\* lists of 2 .. MaxPoints points <<x, y>> with x equally spaced by a distance
\* of 1 .. MaxDistance from 0 and y in 0 .. MaxY
PointLists ==
  UNION {{[i \in 1..n |-> <<(i - 1) * d, ys[i]>>] : ys \in [1..n -> 0..MaxY]} :
           <<n, d>> \in (2..MaxPoints) \X (1..MaxDistance)}

\* the keys a distribution over the points is asked for: from below the
\* first x to above the last
Keys(points) == (points[1][1] - 1)..(points[Len(points)][1] + 1)

\* InterpolatedDistribution._linear_interpolation(y0, y1, offset) with
\* offset = (key - p0[0]) / (p1[0] - p0[0])
linear_interpolation(p0, p1, key) ==
  [num |-> p0[2] * (p1[1] - p0[1]) + (p1[2] - p0[2]) * (key - p0[1]),
   den |-> p1[1] - p0[1]]

\* points[i] of a Python list for i >= -1: index -1 is the last element
py_index(points, i) == IF i < 0 THEN points[Len(points) + 1 + i] ELSE points[i + 1]

\* InterpolatedDistribution.__getitem__(key)
InterpolatedDistribution_getitem(points, key) ==
  IF key < points[1][1] THEN [num |-> points[1][2], den |-> 1]
  ELSE IF key >= points[Len(points)][1] THEN [num |-> points[Len(points)][2], den |-> 1]
  ELSE LET hits == {i \in 0..(Len(points) - 1) : points[i + 1][1] >= key}
           min_i == IF hits = {} THEN 0 ELSE MinOfSet(hits)
       IN linear_interpolation(py_index(points, min_i - 1), py_index(points, min_i), key)

\* math.ceil(a / b) for b > 0
ceil(a, b) == 0 - ((0 - a) \div b)

\* variant of EquallySpacedInterpolatedDistribution.__getitem__ that takes
\* the index of the point at or below the key for min_i
EquallySpacedInterpolatedDistribution_getitem_floor(points, key) ==
  IF key < points[1][1] THEN [num |-> points[1][2], den |-> 1]
  ELSE IF key >= points[Len(points)][1] THEN [num |-> points[Len(points)][2], den |-> 1]
  ELSE LET distance_between_points ==
             IF points[2][1] >= points[1][1] THEN points[2][1] - points[1][1]
             ELSE points[1][1] - points[2][1]
           min_i == (key - points[1][1]) \div distance_between_points
       IN linear_interpolation(py_index(points, min_i - 1), py_index(points, min_i), key)

\* EquallySpacedInterpolatedDistribution.__getitem__(key), with
\* distance_between_points = abs(points[1][0] - points[0][0])
EquallySpacedInterpolatedDistribution_getitem(points, key) ==
  IF key < points[1][1] THEN [num |-> points[1][2], den |-> 1]
  ELSE IF key >= points[Len(points)][1] THEN [num |-> points[Len(points)][2], den |-> 1]
  ELSE LET distance_between_points ==
             IF points[2][1] >= points[1][1] THEN points[2][1] - points[1][1]
             ELSE points[1][1] - points[2][1]
           min_i == ceil(key - points[1][1], distance_between_points)
       IN linear_interpolation(py_index(points, min_i - 1), py_index(points, min_i), key)

\* two distributions are built over the same points and about to be asked
\* for the same key
InitDistribution ==
  /\ Idle
  /\ \E points \in PointLists : \E key \in Keys(points) :
       call = [op |-> "distribution", points |-> points, key |-> key,
               interpolated |-> << >>, equally_spaced |-> << >>]

\* InterpolatedDistribution.linear(points, bounds)[key]
InterpolatedGetitem ==
  /\ call.op = "distribution"
  /\ call' = [call EXCEPT !.interpolated =
                <<InterpolatedDistribution_getitem(call.points, call.key)>>]
  /\ UnchangedSimulation

\* EquallySpacedInterpolatedDistribution.linear(points, bounds)[key]
EquallySpacedGetitem ==
  /\ call.op = "distribution"
  /\ call' = [call EXCEPT !.equally_spaced =
                <<EquallySpacedInterpolatedDistribution_getitem(call.points, call.key)>>]
  /\ UnchangedSimulation

NextDistribution ==
  \/ InterpolatedGetitem
  \/ EquallySpacedGetitem

SpecDistribution == InitDistribution /\ [][NextDistribution]_vars

\* ---- charging_event_generator.py ----
\* A datetime is the number of minutes since a Monday 00:00.  Hours are
\* kept in units of 1 / HourParts, which holds every hour stamp of a
\* distribution with 84 or 168 values and a start on a full minute exactly.

HourParts == 432000

weekday(t) == (t \div (24 * 60)) % 7
hour(t) == (t % (24 * 60)) \div 60
minute(t) == t % 60

\* time_stamp_to_hours(time_stamps): hours since the beginning of the hour
\* of the first time stamp
time_stamp_to_hours(time_stamps) ==
  LET start == time_stamps[1]
  IN [k \in 1..Len(time_stamps) |->
        (time_stamps[k] - start) * (HourParts \div 60)
          + minute(start) * (HourParts \div 60)]

\* hours_to_time_stamps(hours, start): the beginning of the hour of start
\* plus timedelta(hours=hour) for every hour
hours_to_time_stamps(hours, start) ==
  LET hour0_corr == start - minute(start)
  IN [k \in 1..Len(hours) |-> hour0_corr + hours[k] \div (HourParts \div 60)]

\* distr * n of a Python list
RECURSIVE py_repeat(_, _)
py_repeat(distr, n) == IF n <= 0 THEN << >> ELSE distr \o py_repeat(distr, n - 1)

\* align_distribution(distr, first_time_stamp, last_time_stamp);
\* offset.total_seconds() / seconds_per_value is
\* offset_seconds * num_values / seconds_per_week, and difference is its
\* fractional part divided by 3600
align_distribution(distr, first_time_stamp, last_time_stamp) ==
  LET hours == weekday(first_time_stamp) * 24 + hour(first_time_stamp)
      minutes == minute(first_time_stamp)
      offset_seconds == (hours * 60 + minutes) * 60
      seconds_per_week == 7 * 24 * 3600
      num_values == Len(distr)
      starting_pos == (offset_seconds * num_values) \div seconds_per_week
      difference ==
        ((offset_seconds * num_values - starting_pos * seconds_per_week)
           * (HourParts \div 3600)) \div seconds_per_week
      period_seconds == (last_time_stamp - first_time_stamp) * 60
      total_weeks == ceil(period_seconds, seconds_per_week)
  IN [aligned_distribution |->
        SubSeq(distr, starting_pos + 1, num_values) \o py_repeat(distr, total_weeks),
      difference |-> difference]

\* create_vehicle_arrivals, up to the normalisation: the value of the
\* distribution over the aligned list at the position of each time step
\* (arrival_probability as the loop over corr_position leaves it)
unnormalised_arrival_probability(arrival_distribution, time_steps) ==
  LET coefficient == (168 * HourParts) \div Len(arrival_distribution)
      aligned == align_distribution(arrival_distribution, time_steps[1],
                                    time_steps[Len(time_steps)])
      hour_stamps == [x \in 1..Len(aligned.aligned_distribution) |->
                        (x - 1) * coefficient - aligned.difference]
      points == [x \in 1..Len(aligned.aligned_distribution) |->
                   <<hour_stamps[x], aligned.aligned_distribution[x]>>]
      corr_position == time_stamp_to_hours(time_steps)
  IN [k \in 1..Len(time_steps) |->
        EquallySpacedInterpolatedDistribution_getitem(points, corr_position[k])]

\* a fraction in lowest terms with a positive denominator
RECURSIVE gcd(_, _)
gcd(a, b) == IF b = 0 THEN a ELSE gcd(b, a % b)

lowest_terms(v) ==
  LET n == IF v.den < 0 THEN 0 - v.num ELSE v.num
      d == IF v.den < 0 THEN 0 - v.den ELSE v.den
      g == gcd(IF n < 0 THEN 0 - n ELSE n, d)
  IN [num |-> n \div g, den |-> d \div g]

\* a + b of two fractions in lowest terms
fraction_add(a, b) ==
  LET g == gcd(a.den, b.den)
  IN lowest_terms([num |-> a.num * (b.den \div g) + b.num * (a.den \div g),
                   den |-> a.den * (b.den \div g)])

\* x / cumsum of two positive fractions in lowest terms
fraction_div(x, cumsum) ==
  LET g == gcd(x.num, cumsum.num)
      h == gcd(x.den, cumsum.den)
  IN [num |-> (x.num \div g) * (cumsum.den \div h),
      den |-> (x.den \div h) * (cumsum.num \div g)]

\* sum(arrival_probability)
RECURSIVE fraction_sum(_)
fraction_sum(values) ==
  IF values = << >> THEN [num |-> 0, den |-> 1]
  ELSE fraction_add(lowest_terms(Head(values)), fraction_sum(Tail(values)))

\* cumsum = sum(arrival_probability);
\* arrival_probability = [x / cumsum for x in arrival_probability]
divided_by_cumsum(arrival_probability, cumsum) ==
  [k \in 1..Len(arrival_probability) |->
     fraction_div(lowest_terms(arrival_probability[k]), cumsum)]

normalised_arrival_probability(arrival_probability) ==
  divided_by_cumsum(arrival_probability, fraction_sum(arrival_probability))

\* num_weeks = period.total_seconds() / 7 / 24 / 3600 and
\* math.ceil(num_charging_events * num_weeks), the number of arrivals
\* drawn; the time stamps are minutes, the quotients and the product are
\* those of doubles
num_arrivals(num_charging_events, time_steps) ==
  math_ceil(
    float_mul(float(num_charging_events),
              float_div(float_div(float_div(
                          float((time_steps[Len(time_steps)] - time_steps[1]) * 60),
                          float(7)), float(24)), float(3600))))

\* numpy.random.choice(corr_position, p=arrival_probability, size=size):
\* every array of size elements of corr_position that have a positive
\* probability
random_choice(corr_position, arrival_probability, size) ==
  [1..size -> {corr_position[k] : k \in {i \in 1..Len(corr_position) :
                                           arrival_probability[i].num > 0}}]

\* sorted(arrivals)
sorted(arrivals) == SortBy(arrivals, [t \in SeqToSet(arrivals) |-> t])

\* create_vehicle_arrivals(arrival_distribution, num_charging_events,
\* time_steps) with the array corr_times that numpy.random.choice drew: the
\* sorted list of the arrival times
create_vehicle_arrivals(time_steps, corr_times) ==
  sorted(hours_to_time_stamps(corr_times, time_steps[1]))

\* weekly distributions with 84 and 168 values
WeeklyDistributions ==
  {[i \in 1..num |-> ((slope * (i - 1) * (i - 1)) % 7) + 1] :
     <<num, slope>> \in {84, 168} \X (1..MaxSlope)}

\* first time stamps: a Monday, a Wednesday and a Sunday, at 0, 1, 10 and
\* 23 h, on the hour and half past
StartDates ==
  {(d * 24 + h) * 60 + m : <<d, h, m>> \in {0, 2, 6} \X {0, 1, 10, 23} \X {0, 30}}

\* the time steps from start_date on: 2 .. MaxArrivalSteps steps of 30, 60
\* or 120 minutes
TimeStepLists ==
  {[k \in 1..n |-> start + (k - 1) * resolution] :
     <<start, n, resolution>> \in StartDates \X (2..MaxArrivalSteps) \X {30, 60, 120}}

\* the numbers of charging events per week
NumChargingEvents == {0, 5, 126}

\* a weekly distribution, a number of charging events per week and the
\* time steps of a simulation are given
InitArrivals ==
  /\ Idle
  /\ \E distr \in WeeklyDistributions, num_charging_events \in NumChargingEvents,
        time_steps \in TimeStepLists :
       call = [op |-> "create_vehicle_arrivals", arrival_distribution |-> distr,
               num_charging_events |-> num_charging_events,
               time_steps |-> time_steps, unnormalised |-> << >>,
               arrival_probability |-> << >>, corr_times |-> << >>,
               returned |-> << >>]

\* create_vehicle_arrivals(arrival_distribution, num_charging_events,
\* time_steps): the arrival probabilities of the time steps are read from
\* the aligned distribution and normalised, the positions of the arrivals
\* are drawn and the sorted list of the arrival times is returned
CreateVehicleArrivals ==
  /\ call.op = "create_vehicle_arrivals"
  /\ call.arrival_probability = << >>
  /\ \E unnormalised \in {unnormalised_arrival_probability(call.arrival_distribution,
                                                           call.time_steps)} :
       \E arrival_probability \in {normalised_arrival_probability(unnormalised)} :
         \E corr_times \in random_choice(time_stamp_to_hours(call.time_steps),
                                         arrival_probability,
                                         num_arrivals(call.num_charging_events,
                                                      call.time_steps)) :
           call' = [call EXCEPT !.unnormalised = unnormalised,
                                !.arrival_probability = arrival_probability,
                                !.corr_times = corr_times,
                                !.returned =
                                  create_vehicle_arrivals(call.time_steps, corr_times)]
  /\ UnchangedSimulation

NextArrivals == CreateVehicleArrivals

SpecArrivals == InitArrivals /\ [][NextArrivals]_vars

\* ---- utility/walker.py ----
\* The keys are 0 .. n-1.  The weights are a numpy array of dtype float:
\* every operation on its elements is the operation on doubles.

\* the weight vectors: 1 .. MaxWeights weights in 0 .. MaxWeight with a
\* positive sum
WeightVectors ==
  UNION {{w \in [0..(n - 1) -> 0..MaxWeight] : \E i \in 0..(n - 1) : w[i] > 0} :
           n \in 1..MaxWeights}

\* where(cond)[0].tolist(): the keys that satisfy cond, in ascending order
RECURSIVE where(_, _, _)
where(cond, i, n) ==
  IF i >= n THEN << >>
  ELSE (IF cond[i] THEN <<i>> ELSE << >>) \o where(cond, i + 1, n)

\* list.pop(): the list without its last element
pop(list) == SubSeq(list, 1, Len(list) - 1)

\* weights.sum() of the first n elements of an array: numpy adds a short
\* array in the order of its elements
RECURSIVE array_sum(_, _)
array_sum(weights, n) ==
  IF n = 0 THEN float_zero
  ELSE float_add(array_sum(weights, n - 1), weights[n - 1])

\* weights * n / weights.sum()
normalised(w) ==
  LET n == Cardinality(DOMAIN w)
      array == [i \in DOMAIN w |-> float(w[i])]
      total == array_sum(array, n)
  IN [i \in DOMAIN w |-> float_div(float_mul(array[i], float(n)), total)]

\* WalkerRandomSampling.__init__ up to the while loop
Walker_tables(w) ==
  LET n == Cardinality(DOMAIN w)
      weights == normalised(w)
  IN [n |-> n, weights |-> weights,
      inx |-> [i \in DOMAIN w |-> 0 - 1],
      short |-> where([i \in DOMAIN w |-> float_lt(weights[i], float(1))], 0, n),
      long |-> where([i \in DOMAIN w |-> float_lt(float(1), weights[i])], 0, n)]

\* the body of the while loop of WalkerRandomSampling.__init__
Walker_pair(t) ==
  LET j == t.short[Len(t.short)]
      k == t.long[Len(t.long)]
      weights == [t.weights EXCEPT
                    ![k] = float_sub(@, float_sub(float(1), t.weights[j]))]
      popped == pop(t.short)
  IN [t EXCEPT !.inx = [t.inx EXCEPT ![j] = k],
               !.weights = weights,
               !.short = IF float_lt(weights[k], float(1)) THEN Append(popped, k)
                         ELSE popped,
               !.long = IF float_lt(weights[k], float(1)) THEN pop(t.long) ELSE t.long]

\* WalkerRandomSampling(weights) has got to its while loop
InitWalker ==
  /\ Idle
  /\ \E w \in WeightVectors :
       call = [op |-> "walker", w |-> w, tables |-> Walker_tables(w), pairings |-> 0,
               built |-> FALSE]

\* one turn of the while loop
WalkerPair ==
  /\ call.op = "walker"
  /\ ~call.built
  /\ call.tables.short # << >> /\ call.tables.long # << >>
  /\ call' = [call EXCEPT !.tables = Walker_pair(call.tables), !.pairings = @ + 1]
  /\ UnchangedSimulation

\* the while loop ends: self.prob = weights, self.inx = inx
WalkerBuilt ==
  /\ call.op = "walker"
  /\ ~call.built
  /\ ~(call.tables.short # << >> /\ call.tables.long # << >>)
  /\ call' = [call EXCEPT !.built = TRUE]
  /\ UnchangedSimulation

NextWalker ==
  \/ WalkerPair
  \/ WalkerBuilt

SpecWalker == InitWalker /\ [][NextWalker]_vars

\* ---- DiscriminationFree.sort_cps on its own ----

\* time_steps_to_charge_in_a_row of the configurations sorted for: a
\* charging period of one step, of two steps, and of 40, 150 and 200 steps
\* (resolutions of a few minutes or of one minute); with 40 and 200 steps a
\* counter of 1 or 3 lies halfway between two hundredths of a period
SortWindows == {1, 2, 40, 150, 200}

\* the states of n charging points handed to sort_cps: the points in the
\* order the dict lists them, each with times_charged in 0 .. MaxTimesCharged
SortStates(n) ==
  {[none |-> FALSE,
    entries |-> [i \in 1..n |->
                   [cp |-> order[i], id |-> order[i], times_charged |-> tc[i]]]] :
     <<order, tc>> \in Orders(1..n) \X [1..n -> 0..MaxTimesCharged]}

\* a DiscriminationFree policy holds a state and is about to sort it
InitSortCps ==
  /\ Idle
  /\ \E n \in 1..MaxSorted : \E st \in SortStates(n) : \E W \in SortWindows :
       call = [op |-> "sort_cps", state |-> st, W |-> W, sorted |-> << >>, returned |-> FALSE]

\* self.sort_cps(config)
SortCps ==
  /\ call.op = "sort_cps"
  /\ ~call.returned
  /\ call' = [call EXCEPT !.sorted = sort_cps(call.state, call.W), !.returned = TRUE]
  /\ UnchangedSimulation

NextSortCps == SortCps

SpecSortCps == InitSortCps /\ [][NextSortCps]_vars

\* ------------------------------------------------------------------------
\* A run in which a fixed set of vehicles stays connected
\* ------------------------------------------------------------------------

\* the charging events of such a run: they park until after the last time
\* step (parking_time in ticks), with a battery that is full or not
ConnectedKinds ==
  {[parking_time |-> 2 * NumSteps, soc |-> soc, vehicle_type |-> "vtA"] :
     soc \in {float_div(float(21), float(32)), float(1)}}
  \cup
  {[parking_time |-> 2 * NumSteps, soc |-> soc, vehicle_type |-> "vtB"] :
     soc \in {float_div(float(5), float(16)), float(1)}}

\* the runs: DiscriminationFree on the infrastructure with three charging
\* points, with a transformer that is free or that its preload fills
ConnectedRuns ==
  [scenario : [scheduling_policy : {"DiscriminationFree"},
               df_charging_period : {4},
               resolution : {2},
               disconnect_by_time : {TRUE},
               queue_length : {1},
               opening_hours : {<< >>},
               infrastructure : {InfraTight},
               transformer_preload :
                 {preload_list(float_zero, <<float_zero>>, NumSteps),
                  preload_list(eighths(70), <<eighths(70)>>, NumSteps)},
               first_arrival_step : {FirstArrivalStep},
               event_kinds : {EventKinds}],
   log : {FALSE},
   total_time_steps : {NumSteps},
   ChargingPoint_counter : {1}]

\* simulate_async in its first time step, after handle_car_arrival connected
\* the two charging events of the run, which both arrive at time 0
InitConnected ==
  \E run \in ConnectedRuns : \E kind1, kind2 \in ConnectedKinds :
    \E cp1, cp2 \in DOMAIN run.scenario.infrastructure.cp :
      /\ cp1 # cp2
      /\ scenario = run.scenario
      /\ log = run.log
      /\ total_time_steps = run.total_time_steps
      /\ cp_id = cp_ids(run.scenario.infrastructure, run.ChargingPoint_counter)
      /\ time_step_pos = 0
      /\ free_cps = CPs \ {cp1, cp2}
      /\ busy_cps = {cp1, cp2}
      /\ connected_vehicle =
           [cp \in CPs |-> IF cp = cp1 THEN ChargingEvent(1, 0, kind1)
                           ELSE IF cp = cp2 THEN ChargingEvent(2, 0, kind2)
                           ELSE None]
      /\ waiting_queue = [queue |-> << >>, next_leave |-> FarFuture]
      /\ charging_event_counter = 2
      /\ counter_rejections = 0
      /\ assign_power = no_power(scenario.infrastructure)
      /\ preload = float_zero
      /\ storage = scenario.infrastructure.storage
      /\ state = state_None
      /\ charged_log = [cp \in CPs |-> << >>]
      /\ power_charging_points = << >>
      /\ last_stored_cp_power = << >>
      /\ dense_load = << >>
      /\ energy_charged = float_zero
      /\ aggregated_load_profile = << >>
      /\ total_energy = [called |-> FALSE, raised |-> FALSE, energy |-> float_zero]
      /\ power_storage_systems = << >>
      /\ last_stored_storage_power = << >>
      /\ charging_periods = << >>
      /\ scheduled = {}
      /\ powered = {}
      /\ pc = "schedule"
      /\ call = no_call

\* the loop of simulate_async when no further charging event arrives
NextConnected ==
  \/ UpdateQueue
  \/ UpdateCps
  \/ NoArrival
  \/ Schedule
  \/ ChargeConnectedVehicles
  \/ ChargeStorage

SpecConnected == InitConnected /\ [][NextConnected]_vars

\* ------------------------------------------------------------------------
\* simulate_async on a scenario with a given list of charging events
\* ------------------------------------------------------------------------

\* the runs: FCFS on one charging point with a queue of one
ListedRuns ==
  [scenario : [scheduling_policy : {"FCFS"},
               df_charging_period : {4},
               resolution : {2},
               disconnect_by_time : {TRUE},
               queue_length : {1},
               opening_hours : {<< >>},
               infrastructure : {InfraOne},
               transformer_preload : {preload_list(float_zero, <<float_zero>>, NumSteps)},
               first_arrival_step : {FirstArrivalStep},
               event_kinds : {EventKinds}],
   log : {TRUE},
   total_time_steps : {NumSteps},
   ChargingPoint_counter : {1}]

\* arrival times in ticks between start_date (0) and end_date: two adjacent
\* time steps, the tick in between, which is no time step, and the last
\* time step
ArrivalTimes ==
  {2 * FirstArrivalStep, 2 * FirstArrivalStep + 1, 2 * FirstArrivalStep + 2,
   2 * (NumSteps - 1)}

\* scenario.charging_events: lists of up to MaxEvents events sorted by
\* arrival_time, as config.with_charging_events accepts them
ChargingEventLists ==
  UNION {{[i \in 1..n |-> ChargingEvent(i, times[i], kind)] :
            times \in {t \in [1..n -> ArrivalTimes] :
                         \A i \in 1..(n - 1) : t[i] <= t[i + 1]},
            kind \in EventKinds} : n \in 1..MaxEvents}

\* simulate_async enters its loop with charging_events = scenario.charging_events
InitListed ==
  /\ \E run \in ListedRuns : SimulationStart(run)
  /\ pc = "update_queue"
  /\ \E events \in ChargingEventLists :
       call = [op |-> "simulate_async", charging_events |-> events]

\* the condition of the while loop of simulate_async
event_arrives_now ==
  /\ Len(call.charging_events) > charging_event_counter
  /\ time_step = call.charging_events[charging_event_counter + 1].arrival_time

\* the body of the while loop: handle_car_arrival for
\* charging_events[charging_event_counter]
HandleListedArrival ==
  /\ pc = "arrivals"
  /\ call.op = "simulate_async"
  /\ event_arrives_now
  /\ \E cp \in (IF free_cps = {} THEN {0} ELSE free_cps) :
       LET sim == handle_car_arrival(call.charging_events[charging_event_counter + 1], cp)
       IN /\ free_cps' = sim.free_cps
          /\ busy_cps' = sim.busy_cps
          /\ connected_vehicle' = sim.connected_vehicle
          /\ waiting_queue' = sim.waiting_queue
          /\ counter_rejections' = sim.counter_rejections
  /\ charging_event_counter' = charging_event_counter + 1
  /\ UNCHANGED <<scenario, log, total_time_steps, time_step_pos, pc, assign_power,
                 preload, storage, state,
                 charged_log, cp_id,
                 power_charging_points, last_stored_cp_power, dense_load,
                 energy_charged,
                 aggregated_load_profile, total_energy,
                 call,
                 power_storage_systems, last_stored_storage_power,
                 charging_periods, scheduled, powered>>

\* the while loop ends: the list is exhausted or the arrival_time of its
\* next event is not the time step
ListedArrivalsEnd ==
  /\ pc = "arrivals"
  /\ call.op = "simulate_async"
  /\ ~event_arrives_now
  /\ pc' = "schedule"
  /\ UNCHANGED <<scenario, log, total_time_steps, time_step_pos, free_cps, busy_cps,
                 connected_vehicle, waiting_queue, charging_event_counter,
                 counter_rejections, assign_power, preload, storage, state,
                 charged_log, cp_id,
                 power_charging_points, last_stored_cp_power, dense_load,
                 energy_charged,
                 aggregated_load_profile, total_energy,
                 call,
                 power_storage_systems, last_stored_storage_power,
                 charging_periods, scheduled, powered>>

NextListed ==
  \/ UpdateQueue
  \/ UpdateCps
  \/ HandleListedArrival
  \/ ListedArrivalsEnd
  \/ Schedule
  \/ ChargeConnectedVehicles
  \/ ChargeStorage

SpecListed == InitListed /\ [][NextListed]_vars

\* ------------------------------------------------------------------------
\* StationaryBattery.charge and discharge called on a battery (battery.py)
\* ------------------------------------------------------------------------

\* a step length of one hour: step_length.total_seconds() / 3600
FloatStepLengthHours == float_div(float(3600), float(3600))

\* the batteries charge and discharge are called on: 10 kWh with 6 kW and
\* 50 kWh with 30 kW
StationaryBatteries ==
  {StationaryBattery(float(10), float(6)), StationaryBattery(float(50), float(30))}

\* the powers charge and discharge are called with, in kW: -1, 0, 2.5,
\* 2.5003, 5.0005 and 24.6
BatteryPowers ==
  {float_neg(float(1)), float_zero, decimal(2500),
   float_div(float(25003), float(10000)), float_div(float(50005), float(10000)),
   decimal(24600)}

\* a battery has been constructed
InitBattery ==
  /\ Idle
  /\ \E b \in StationaryBatteries :
       call = [op |-> "battery", battery |-> b, before |-> b, calls |-> 0,
               method |-> "__init__", power |-> float_zero, raised |-> "none"]

\* battery.charge(available_power, step_length)
Charge ==
  /\ call.op = "battery"
  /\ call.calls < MaxBatteryCalls
  /\ \E available_power \in BatteryPowers :
       LET res == StationaryBattery_charge(call.battery, available_power,
                                           FloatStepLengthHours)
       IN call' = [op |-> "battery", battery |-> res.battery, before |-> call.battery,
                   calls |-> call.calls + 1, method |-> "charge",
                   power |-> available_power, raised |-> res.raised]
  /\ UnchangedSimulation

\* battery.discharge(power_to_discharge, step_length)
Discharge ==
  /\ call.op = "battery"
  /\ call.calls < MaxBatteryCalls
  /\ \E power_to_discharge \in BatteryPowers :
       LET res == StationaryBattery_discharge(call.battery, power_to_discharge,
                                              FloatStepLengthHours)
       IN call' = [op |-> "battery", battery |-> res.battery, before |-> call.battery,
                   calls |-> call.calls + 1, method |-> "discharge",
                   power |-> power_to_discharge, raised |-> res.raised]
  /\ UnchangedSimulation

NextBattery ==
  \/ Charge
  \/ Discharge

SpecBattery == InitBattery /\ [][NextBattery]_vars

\* ------------------------------------------------------------------------
\* simulate_async on a tree with a storage and one charging point
\* ------------------------------------------------------------------------

\* entries of config.transformer_preload, in kW
FloatPreloads == {float(0), decimal(3063), decimal(8900), float(9)}

\* the charging events of these runs: a vehicle of 100 kWh and 50 kW with
\* soc 0.1 that stays for 20 hours or for one
StorageKinds ==
  {[parking_time |-> 20, soc |-> decimal(100), vehicle_type |-> "vtC"],
   [parking_time |-> 1, soc |-> decimal(100), vehicle_type |-> "vtC"]}

\* scenario.transformer_preload: the transformer is at its max_power of
\* 10 kW up to the last steps steps, whose preloads are late
late_preloads(late, steps) ==
  [i \in 1..NumSteps |->
     IF i <= NumSteps - steps THEN float(10) ELSE late[i - (NumSteps - steps)]]

\* the runs: FCFS with a resolution of one hour; in the last
\* MaxStorageSteps steps the preload is any of FloatPreloads and charging
\* events arrive
StorageRuns ==
  [scenario : [scheduling_policy : {"FCFS"},
               df_charging_period : {2},
               resolution : {1},
               disconnect_by_time : {TRUE},
               queue_length : {0},
               opening_hours : {<< >>},
               infrastructure : {FloatInfra},
               transformer_preload :
                 {late_preloads(late, MaxStorageSteps) :
                    late \in [1..MaxStorageSteps -> FloatPreloads]},
               first_arrival_step : {NumSteps - MaxStorageSteps},
               event_kinds : {StorageKinds}],
   log : {FALSE},
   total_time_steps : {NumSteps},
   ChargingPoint_counter : {1}]

InitStorage ==
  /\ \E run \in StorageRuns : SimulationStart(run)
  /\ pc = "update_queue"
  /\ call = no_call

SpecStorage == InitStorage /\ [][NextLoop]_vars

\* ------------------------------------------------------------------------
\* simulate_async on a tree with a storage and two charging points, under
\* FCFS and under DiscriminationFree
\* ------------------------------------------------------------------------

\* entries of config.transformer_preload, in kW
SharedPreloads == {float(0), decimal(3063)}

\* the charging events of these runs: a vehicle of 100 kWh and 50 kW with
\* soc 0.1 that stays for 20 hours, or with soc 0.97 that stays for two
SharedEvents ==
  {[parking_time |-> 20, soc |-> decimal(100), vehicle_type |-> "vtC"],
   [parking_time |-> 2, soc |-> decimal(970), vehicle_type |-> "vtC"]}

\* the runs: a resolution of one hour, a df_charging_period of two; in the
\* last MaxSharedSteps steps the preload is any of SharedPreloads and
\* charging events arrive
SharedRuns ==
  [scenario : [scheduling_policy : {"FCFS", "DiscriminationFree"},
               df_charging_period : {2},
               resolution : {1},
               disconnect_by_time : {TRUE},
               queue_length : {0},
               opening_hours : {<< >>},
               infrastructure : {SharedInfra},
               transformer_preload :
                 {late_preloads(late, MaxSharedSteps) :
                    late \in [1..MaxSharedSteps -> SharedPreloads]},
               first_arrival_step : {NumSteps - MaxSharedSteps},
               event_kinds : {SharedEvents}],
   log : {FALSE},
   total_time_steps : {NumSteps},
   ChargingPoint_counter : {1}]

InitShared ==
  /\ \E run \in SharedRuns : SimulationStart(run)
  /\ pc = "update_queue"
  /\ call = no_call

SpecShared == InitShared /\ [][NextLoop]_vars

\* ------------------------------------------------------------------------
\* Uncontrolled.schedule on a tree with a storage
\* ------------------------------------------------------------------------

\* the socs of the vehicles at the call: 0.1, 0.85, 0.879992, 0.9 and 1
UncontrolledSocs ==
  {decimal(100), decimal(850), float_div(float(879992), float(1000000)),
   decimal(900), float(1)}

\* the socs of the storage at the call: 0, 0.1, 0.2099, 0.6936, 0.9035 and 1
UncontrolledStorageSocs ==
  {float_zero, decimal(100), float_div(float(2099), float(10000)),
   float_div(float(6936), float(10000)), float_div(float(9035), float(10000)),
   float(1)}

\* the vehicle at a charging point when schedule is called: none, or a
\* vehicle of 100 kWh and 50 kW with some soc
UncontrolledVehicles ==
  {None} \cup {ChargingEvent(1, 0, [parking_time |-> 20, soc |-> soc,
                                    vehicle_type |-> "vtC"]) :
                 soc \in UncontrolledSocs}

\* the policy is about to schedule a step; the storage has some soc
InitUncontrolled ==
  /\ Idle
  /\ \E vehicles \in [DOMAIN SharedInfra.cp -> UncontrolledVehicles] :
       \E soc \in UncontrolledStorageSocs :
         call = [op |-> "Uncontrolled.schedule", vehicles |-> vehicles,
                 battery |-> [SharedInfra.storage[1] EXCEPT !.soc = soc],
                 assign_power |-> [cps |-> <<float_zero, float_zero>>,
                                   storage |-> <<float_zero>>],
                 returned |-> FALSE]

\* Uncontrolled().schedule(config, free_cps, busy_cps)
UncontrolledSchedule ==
  /\ call.op = "Uncontrolled.schedule"
  /\ ~call.returned
  /\ \E assigned \in Uncontrolled_schedule(
                       SharedInfra, <<call.battery>>,
                       {cp \in DOMAIN SharedInfra.cp : call.vehicles[cp] # None},
                       call.vehicles, FloatStepLengthHours) :
       call' = [call EXCEPT !.assign_power = assigned, !.returned = TRUE]
  /\ UnchangedSimulation

NextUncontrolled == UncontrolledSchedule

SpecUncontrolled == InitUncontrolled /\ [][NextUncontrolled]_vars

\* ------------------------------------------------------------------------
\* Properties
\* ------------------------------------------------------------------------

\* the policy walks the infrastructure tree
tree_policy == scenario.scheduling_policy \in {"FCFS", "DiscriminationFree"}

\* the power assigned to all charging points, added up from 0 in the order
\* of the tree
total_assigned ==
  add_assigned(float_zero, assign_power.cps, Len(assign_power.cps))

\* the preload plus the power assigned to all charging points, added up as
\* Transformer.max_hardware_power adds them
preload_and_assigned ==
  add_assigned(preload, assign_power.cps, Len(assign_power.cps))

\* max_discharge_power(0, resolution) of the storage at its current soc, 0
\* if the tree has no storage
max_discharge_available ==
  IF storage = << >> THEN float_zero
  ELSE max_discharge_power(storage[1], float_zero, step_length_hours)

station_assigned(cs) == add_leafs(assign_power.cps, cs, Len(assign_power.cps))

\* C2: when FCFS or DiscriminationFree has scheduled a step, the power
\* assigned to the charging points beneath a charging station is in sum at
\* most the max_power of the station.
C2_StationConstraint ==
  (pc = "charge" /\ tree_policy) =>
    \A cs \in DOMAIN scenario.infrastructure.cs :
      float_le(station_assigned(cs), scenario.infrastructure.cs[cs])

\* C2 witness: two vehicles beneath one station, the station is used up and
\* one of them gets less than its charging point and battery could take
C2_Witness ==
  /\ pc = "charge" /\ tree_policy
  /\ \E cs \in DOMAIN scenario.infrastructure.cs :
       /\ Cardinality(leafs(cs, busy_cps)) = 2
       /\ station_assigned(cs) = scenario.infrastructure.cs[cs]
       /\ \E cp \in leafs(cs, busy_cps) :
            float_lt(assign_power.cps[cp],
                     float_min(ChargingPoint_max_hardware_power(scenario.infrastructure, cp,
                                                                connected_vehicle[cp]),
                               power_to_charge_target(connected_vehicle[cp], float(1),
                                                      step_length_hours)))

\* C3 as stated: in disconnect-by-time mode, when update_queue has run for a
\* step, no event in the waiting queue has a leaving_time at or before the
\* time of the step, with logging or without.
C3_QueuePurged ==
  (pc = "update_cps" /\ scenario.disconnect_by_time) =>
    \A i \in 1..Len(waiting_queue.queue) :
      waiting_queue.queue[i].leaving_time > time_step

\* C4: the waiting queue never holds more than queue_length events, and an
\* arriving event that finds the queue full (or queue_length = 0) leaves the
\* queue as it was.
C4_QueueBound ==
  /\ [](Len(waiting_queue.queue) <= scenario.queue_length)
  /\ [][(/\ pc = "arrivals"
         /\ charging_event_counter' = charging_event_counter + 1
         /\ Len(waiting_queue.queue) >= scenario.queue_length)
        => waiting_queue' = waiting_queue]_vars

\* C4 witness: always open, the charging point is busy, the queue is full
\* and an arriving event has been rejected
C4_Witness ==
  /\ scenario.opening_hours = << >>
  /\ scenario.queue_length > 0
  /\ free_cps = {}
  /\ Len(waiting_queue.queue) = scenario.queue_length
  /\ counter_rejections > 0

\* C5: when a policy has scheduled a step, the power assigned to a charging
\* point is at least 0 and at most the max_power of the charging point.
C5_PowerBounds ==
  pc = "charge" =>
    \A cp \in CPs :
      /\ float_le(float_zero, assign_power.cps[cp])
      /\ float_le(assign_power.cps[cp], scenario.infrastructure.cp[cp])

\* C5 witness: one busy charging point gets its max_power, another one 0
C5_Witness ==
  /\ pc = "charge"
  /\ \E cp \in busy_cps : assign_power.cps[cp] = scenario.infrastructure.cp[cp]
  /\ \E cp \in busy_cps : assign_power.cps[cp] = float_zero

\* C6: the soc of a connected vehicle is always between 0 and 1, and
\* charging with power P for a step sets it to min(1, soc + P * dt /
\* capacity).
C6_VehicleSoc ==
  /\ [](\A cp \in busy_cps :
          /\ float_le(float_zero, connected_vehicle[cp].soc)
          /\ float_le(connected_vehicle[cp].soc, float(1)))
  /\ [][pc = "charge" =>
          \A cp \in busy_cps :
            LET soc == connected_vehicle[cp].soc
                capacity == Battery(connected_vehicle[cp].vehicle_type).capacity
                P == assign_power.cps[cp]
            IN connected_vehicle'[cp].soc
                 = float_min(float(1),
                             float_add(soc, float_div(float_mul(P, step_length_hours),
                                                      capacity)))]_vars

\* C6 witness: a vehicle has just been charged to soc = 1
C6_Witness ==
  /\ pc = "charge_storage"
  /\ \E cp \in busy_cps :
       /\ float_lt(float_zero, assign_power.cps[cp])
       /\ connected_vehicle[cp].soc = float(1)

\* C7: the soc of the stationary battery is always between its min_soc and
\* 1, whatever charging and discharging steps a policy makes it take.
C7_StorageSoc ==
  \A st \in DOMAIN storage :
    /\ float_le(storage[st].min_soc, storage[st].soc)
    /\ float_le(storage[st].soc, float(1))

\* C8: when Uncontrolled has scheduled a step, a busy charging point has
\* exactly the smallest of the power the battery takes at its soc, the power
\* that charges it to soc = 1 within the step and the max_power of the
\* charging point; a free charging point has 0.
C8_UncontrolledPower ==
  (pc = "charge" /\ scenario.scheduling_policy = "Uncontrolled") =>
    \A cp \in CPs :
      assign_power.cps[cp] =
        IF cp \in busy_cps
        THEN float_min(
               float_min(max_power_possible(Battery(connected_vehicle[cp].vehicle_type),
                                            connected_vehicle[cp].soc),
                         float_div(
                           float_mul(float_sub(float(1), connected_vehicle[cp].soc),
                                     Battery(connected_vehicle[cp].vehicle_type).capacity),
                           step_length_hours)),
               scenario.infrastructure.cp[cp])
        ELSE float_zero

\* C8 witness: Uncontrolled gives the charging points beneath a station more
\* than the max_power of the station, while another charging point is free
C8_Witness ==
  /\ pc = "charge" /\ scenario.scheduling_policy = "Uncontrolled"
  /\ free_cps # {}
  /\ \E cs \in DOMAIN scenario.infrastructure.cs :
       float_lt(scenario.infrastructure.cs[cs], station_assigned(cs))

\* sum of a list of numbers
RECURSIVE SumSeq(_)
SumSeq(s) == IF s = << >> THEN 0 ELSE Head(s) + SumSeq(Tail(s))

\* the charging points whose vehicle was connected throughout the last W
\* steps scheduled
through_window == {cp \in CPs : Len(charged_log[cp]) = W_steps}

\* C9: under DiscriminationFree, in every window of W steps, two charging
\* points whose vehicles were connected throughout the window were counted
\* as charged a number of times that differs by at most 1, on every
\* infrastructure, also where a station limits one of them in every step.
C9_FairnessAsStated ==
  scenario.scheduling_policy = "DiscriminationFree" =>
    \A a, b \in through_window :
      SumSeq(charged_log[a]) - SumSeq(charged_log[b]) <= 1

\* |a - b| of two floats
float_distance(a, b) == [float_sub(a, b) EXCEPT !.sign = 1]

\* |a - b| of two floats is below 0.0005, half of the third decimal
float_close(a, b) == float_lt(float_distance(a, b), float_div(float(1), float(2000)))

\* |a - b| of two floats is below 0.002, two roundings down to the third
\* decimal
float_floored_close(a, b) ==
  float_lt(float_distance(a, b), float_div(float(2), float(1000)))

\* |a - b| of two floats is below 1e-9: they differ by the rounding of
\* doubles of this size at most
float_rounded_close(a, b) ==
  float_lt(float_distance(a, b), float_div(float(1), float(1000000000)))

\* C10: under FCFS and under DiscriminationFree with a storage, when the
\* power assigned to the charging points in a step, summed over them,
\* exceeds R0 = max(0, max_power of the transformer - preload), the storage
\* power of the assignment is -(total assigned - R0) (here: up to the
\* rounding down to three decimals of R0 and of the difference, less than
\* 0.002), charge_storage discharges the storage by that power and its soc
\* falls by that power * dt / capacity.
C10_StorageDischargeAsStated ==
  [][LET R0 == float_max(float_zero,
                         float_sub(scenario.infrastructure.transformer, preload))
         sb == storage[1]
         power == float_neg(assign_power.storage[1])
     IN (/\ pc = "charge_storage" /\ tree_policy /\ storage # << >>
         /\ float_lt(R0, total_assigned))
        => /\ float_floored_close(assign_power.storage[1],
                                  float_neg(float_sub(total_assigned, R0)))
           /\ pc' # "halted"
           /\ storage'[1].power = assign_power.storage[1]
           /\ storage'[1].soc
                = float_sub(sb.soc, float_div(float_mul(power, step_length_hours),
                                              sb.capacity))]_vars

\* the busy charging points whose vehicle leaves before the one at cp
leaving_before(cp) ==
  {c \in busy_cps :
     connected_vehicle[c].leaving_time < connected_vehicle[cp].leaving_time}

\* the power assigned to the charging points of a set, added up from 0 in
\* the order in which their vehicles leave
RECURSIVE added_in_leaving_order(_)
added_in_leaving_order(cps) ==
  IF cps = {} THEN float_zero
  ELSE LET last == CHOOSE c \in cps :
                     \A d \in cps : connected_vehicle[d].leaving_time
                                      <= connected_vehicle[c].leaving_time
       IN float_add(added_in_leaving_order(cps \ {last}), assign_power.cps[last])

\* assign_power['cps'] when the charging points of a set have been served:
\* the others are at 0
served(cps) ==
  [c \in CPs |-> IF c \in cps THEN assign_power.cps[c] ELSE float_zero]

\* C11: under FCFS, when the vehicles at the busy charging points all leave
\* at different times, every busy charging point has min(cap,
\* floor3(power_to_full)), cap being its own limit, what its station has
\* left and what transformer and storage have left after the charging
\* points whose vehicles leave earlier; so of two vehicles beneath a station
\* the one that leaves earlier is served first and the other one gets the
\* remainder.
C11_FCFSOrder ==
  (/\ pc = "charge" /\ scenario.scheduling_policy = "FCFS"
   /\ \A a, b \in busy_cps :
        a # b => connected_vehicle[a].leaving_time # connected_vehicle[b].leaving_time)
  => \A cp \in busy_cps :
       LET infra == scenario.infrastructure
           vehicle == connected_vehicle[cp]
           n == Len(infra.cp)
           before == served(leaving_before(cp))
           given == added_in_leaving_order(leaving_before(cp))
           R0 == floor(float_max(float_sub(infra.transformer, preload), float_zero))
           from_storage == IF float_lt(R0, given) THEN floor(float_sub(given, R0))
                           ELSE float_zero
           grid_left ==
             floor(float_max(float_sub(infra.transformer,
                                       add_assigned(preload, before, n)),
                             float_zero))
           left == IF infra.storage = << >> THEN grid_left
                   ELSE floor(float_add(grid_left,
                                        max_discharge_power(storage[1], from_storage,
                                                            step_length_hours)))
           station_left ==
             floor(float_sub(infra.cs[parent(cp)], add_leafs(before, parent(cp), n)))
           cap == float_min(float_min(ChargingPoint_max_hardware_power(infra, cp, vehicle),
                                      station_left),
                            left)
           power_to_full ==
             floor(float_div(float_mul(float_sub(float(1), vehicle.soc),
                                       Battery(vehicle.vehicle_type).capacity),
                             step_length_hours))
       IN assign_power.cps[cp] = float_min(cap, power_to_full)

\* C11 witness: of two vehicles beneath one station the one that arrived
\* later leaves earlier and gets all the power of the station, the other
\* one, which is not full, gets 0
C11_Witness ==
  /\ pc = "charge" /\ scenario.scheduling_policy = "FCFS"
  /\ \E a, b \in busy_cps :
       /\ parent(a) = parent(b)
       /\ connected_vehicle[a].leaving_time < connected_vehicle[b].leaving_time
       /\ connected_vehicle[a].arrival_time > connected_vehicle[b].arrival_time
       /\ assign_power.cps[a] = scenario.infrastructure.cs[parent(a)]
       /\ assign_power.cps[b] = float_zero
       /\ float_lt(connected_vehicle[b].soc, float(1))

\* C12: an event that arrives at a step is connected to a free charging
\* point if there is one and the site is open; otherwise it is put at the
\* end of the queue if the site is open and the queue has room; otherwise
\* counter_rejections goes up by 1; nothing else changes, and the events are
\* handled in the order of the list.
C12_ArrivalOutcome ==
  [][(pc = "arrivals" /\ charging_event_counter' = charging_event_counter + 1) =>
       LET n == charging_event_counter + 1
           size == Len(waiting_queue.queue)
           connected ==
             /\ \E cp \in free_cps :
                  /\ connected_vehicle'[cp].id = n
                  /\ connected_vehicle'[cp].arrival_time = time_step
                  /\ busy_cps' = busy_cps \cup {cp}
                  /\ free_cps' = free_cps \ {cp}
                  /\ \A c \in CPs \ {cp} : connected_vehicle'[c] = connected_vehicle[c]
             /\ waiting_queue' = waiting_queue
             /\ counter_rejections' = counter_rejections
           enqueued ==
             /\ Len(waiting_queue'.queue) = size + 1
             /\ SubSeq(waiting_queue'.queue, 1, size) = waiting_queue.queue
             /\ waiting_queue'.queue[size + 1].id = n
             /\ waiting_queue'.queue[size + 1].arrival_time = time_step
             /\ UNCHANGED <<free_cps, busy_cps, connected_vehicle, counter_rejections>>
           rejected ==
             /\ counter_rejections' = counter_rejections + 1
             /\ UNCHANGED <<free_cps, busy_cps, connected_vehicle, waiting_queue>>
       IN IF free_cps # {} /\ within_opening_hours THEN connected
          ELSE IF within_opening_hours /\ scenario.queue_length > 0
                  /\ size < scenario.queue_length
          THEN enqueued
          ELSE rejected]_vars

\* C12 witness: three events arrived at the same step; the first one was
\* connected, the second one queued, the third one rejected
C12_Witness ==
  /\ pc = "arrivals"
  /\ charging_event_counter = 3
  /\ \E cp \in busy_cps :
       /\ connected_vehicle[cp].id = 1
       /\ connected_vehicle[cp].arrival_time = time_step
  /\ Len(waiting_queue.queue) = 1
  /\ waiting_queue.queue[1].id = 2
  /\ waiting_queue.queue[1].arrival_time = time_step
  /\ counter_rejections = 1

\* C13: at a step outside the opening hours, from the end of update_cps on,
\* the waiting queue is empty, no charging point is busy and all are free,
\* so no event that arrives at the step is connected or queued; and the
\* schedule of the step gives every charging point 0.
C13_ClosedSite ==
  ~within_opening_hours =>
    /\ pc \in {"arrivals", "schedule", "charge", "charge_storage"} =>
         /\ waiting_queue.queue = << >>
         /\ busy_cps = {}
         /\ free_cps = CPs
         /\ \A cp \in CPs : connected_vehicle[cp] = None
    /\ pc \in {"charge", "charge_storage"} =>
         \A cp \in CPs : assign_power.cps[cp] = float_zero

\* C13 witness: two events were taken in at an open step (the queue has
\* room for the second one), the site has closed, a third event has been
\* rejected at the closed step and the step has been scheduled
C13_Witness ==
  /\ ~within_opening_hours
  /\ pc = "charge"
  /\ scenario.queue_length = 2
  /\ charging_event_counter = 3
  /\ counter_rejections = 1

\* C14 as stated: a run of at least one step with a policy that assigns
\* power, short runs of fewer than 20 steps included, never ends with an
\* exception: it goes through all its steps and ends normally.
C14_RunsToEnd ==
  (/\ total_time_steps >= 1
   /\ scenario.scheduling_policy \in {"Uncontrolled", "FCFS", "DiscriminationFree"})
  => pc # "halted"

\* C15 as stated: in every reachable state next_leave of the waiting queue
\* is the earliest leaving_time of the queued events, and the far-future
\* date if the queue is empty.
C15_NextLeave ==
  waiting_queue.next_leave =
    IF waiting_queue.queue = << >> THEN FarFuture
    ELSE MinOfSet({waiting_queue.queue[i].leaving_time :
                     i \in 1..Len(waiting_queue.queue)})

\* the power assigned at the step of index i, by the id of the charging
\* point
assigned_at(i) ==
  [id \in DOMAIN power_charging_points |-> dense_load[i][id - cp_id[1] + 1]]

\* C16: at every point of a run, the load profile that aggregate_load_profile
\* rebuilds from the sparse traces of store_power_charging_points over the
\* steps stored so far equals, at every step index, the sum over the
\* charging points of the power assigned at that step, added up in the
\* order in which the result lists the charging points, whatever that order
\* is; at the end of a run, with the last step stored as the last one, it
\* has total_time_steps entries.
C16_DeltaEncoding ==
  /\ \A keys \in Orders(DOMAIN power_charging_points) :
       aggregate_load_profile(power_charging_points, keys, Len(dense_load))
         = [i \in 1..Len(dense_load) |->
              add_in_order(float_zero, assigned_at(i), keys)]
  /\ pc = "done" => Len(dense_load) = total_time_steps

\* a finished run in which a charging point was stored at more than two but
\* not at all steps and power was assigned at some step
C16_Witness ==
  /\ pc = "done"
  /\ \E id \in DOMAIN power_charging_points :
       /\ Cardinality(DOMAIN power_charging_points[id]) >= 3
       /\ Cardinality(DOMAIN power_charging_points[id]) < total_time_steps
  /\ \E i \in 1..Len(dense_load) :
       \E cp \in CPs : float_lt(float_zero, dense_load[i][cp])

\* the energy of the aggregated load profile of the stored traces: the sum
\* of its entries times the step length
profile_energy ==
  float_mul(sum_list(aggregate_load_profile(power_charging_points, cp_id,
                                            total_time_steps),
                     total_time_steps),
            step_length_hours)

\* C17: whenever the connected vehicles are charged, the soc of the vehicle
\* at every busy charging point rises by the power assigned to the charging
\* point over the step (soc gain times capacity = power times step length;
\* the cut at soc 1 takes nothing away); and when a run ends, the energy of
\* the aggregated load profile equals the sum of soc gain times capacity of
\* all vehicles charged in the run.  Both to within 1e-9 kWh, the rounding
\* of the doubles.
C17_EnergyConserved ==
  /\ [](pc = "done" => float_rounded_close(profile_energy, energy_charged))
  /\ [][pc = "charge" =>
         \A cp \in busy_cps :
           float_rounded_close(
             float_mul(float_sub(connected_vehicle'[cp].soc, connected_vehicle[cp].soc),
                       Battery(connected_vehicle[cp].vehicle_type).capacity),
             float_mul(assign_power.cps[cp], step_length_hours))]_vars

\* a finished run in which energy was charged and a vehicle still connected
\* at the end has been charged to soc 1
C17_Witness ==
  /\ pc = "done"
  /\ float_lt(float_zero, energy_charged)
  /\ \E cp \in busy_cps : connected_vehicle[cp].soc = float(1)

\* C18: simulating a scenario realisation again in the same process yields
\* the per charging point power traces of the first simulation.  The first
\* simulation stores its traces under the ids cp 1 .. cp n of its n charging
\* points, so a simulation that repeats it has to end with traces under
\* exactly these keys.
C18_SameTraces ==
  pc = "done" =>
    DOMAIN power_charging_points = 1..Len(scenario.infrastructure.cp)

\* C19: under the WithStorage and the Optimized policy the run never stops on
\* an error, every assignment gives 0 to every charging point and to the
\* storage, and the run ends with a load profile of total_time_steps zeros.
C19_StubPolicies ==
  scenario.scheduling_policy \in StubPolicies =>
    /\ pc # "halted"
    /\ \A cp \in CPs : assign_power.cps[cp] = float_zero
    /\ \A i \in 1..Len(assign_power.storage) : assign_power.storage[i] = float_zero
    /\ pc = "done" =>
         aggregate_load_profile(power_charging_points, cp_id, total_time_steps)
           = [i \in 1..total_time_steps |-> float_zero]

\* C20: when vehicles are not disconnected by time only, update_cps leaves
\* no vehicle connected whose soc has reached its target or whose parking
\* time has elapsed: in a step within the opening hours, once update_cps
\* has run, every connected vehicle is short of its soc target and has a
\* leaving time after the time of the step.
C20_SocOrParkingTime ==
  (~scenario.disconnect_by_time /\ within_opening_hours /\ pc = "arrivals") =>
    \A cp \in busy_cps :
      /\ ~must_disconnect(connected_vehicle[cp], time_step, FALSE)
      /\ connected_vehicle[cp].leaving_time > time_step

\* C21: whenever total_energy_charged has been called on the result of a
\* simulation, whether aggregate_load_profile was called before or not, it
\* has returned the sum of the aggregated load profile of the stored traces
\* (times the step length), which is 0 for traces that hold no power.
C21_TotalEnergy ==
  total_energy.called =>
    /\ ~total_energy.raised
    /\ \E keys \in Orders(DOMAIN power_charging_points) :
         total_energy.energy
           = float_mul(sum_list(aggregate_load_profile(power_charging_points, keys,
                                                       total_time_steps),
                                total_time_steps),
                       step_length_hours)

\* are two fractions the same number
same_value(a, b) == a.num * b.den = b.num * a.den

\* what the distributions are to return for a key: the y of the first point
\* below the first x, the y of the last point from the last x on, the y of
\* the point at the x of a point, and otherwise the value at the key of the
\* line through the two points around it
interpolation_expected(points, key) ==
  IF key < points[1][1] THEN [num |-> points[1][2], den |-> 1]
  ELSE IF key >= points[Len(points)][1] THEN [num |-> points[Len(points)][2], den |-> 1]
  ELSE IF \E i \in 1..Len(points) : points[i][1] = key
  THEN [num |-> points[CHOOSE i \in 1..Len(points) : points[i][1] = key][2], den |-> 1]
  ELSE LET i == CHOOSE j \in 1..(Len(points) - 1) :
                  points[j][1] < key /\ key < points[j + 1][1]
           dx == points[i + 1][1] - points[i][1]
       IN [num |-> points[i][2] * dx + (points[i + 1][2] - points[i][2]) * (key - points[i][1]),
           den |-> dx]

\* C22: over a list of at least two equally spaced points, what
\* InterpolatedDistribution and EquallySpacedInterpolatedDistribution return
\* for a key is the same value, namely the first y below the first x, the
\* last y from the last x on, the y of a point at its x, and the linear
\* interpolation between the two points around the key otherwise.
C22_SameInterpolation ==
  (call.op = "distribution" /\ call.interpolated # << >> /\ call.equally_spaced # << >>) =>
    /\ same_value(call.interpolated[1], call.equally_spaced[1])
    /\ same_value(call.interpolated[1], interpolation_expected(call.points, call.key))

\* both distributions have answered for a key strictly between two points
\* of different y that are more than 1 apart, after the first two points
C22_Witness ==
  /\ call.op = "distribution"
  /\ call.interpolated # << >> /\ call.equally_spaced # << >>
  /\ \E i \in 2..(Len(call.points) - 1) :
       /\ call.points[i][1] < call.key /\ call.key < call.points[i + 1][1]
       /\ call.points[i][2] # call.points[i + 1][2]
       /\ call.points[i + 1][1] - call.points[i][1] > 1

\* n times the chance that random() returns key i, as the tables give it:
\* j is drawn evenly, and key j is returned with chance prob[j] and inx[j]
\* otherwise
RECURSIVE Walker_random_chance(_, _, _)
Walker_random_chance(t, i, j) ==
  IF j < 0 THEN t.weights[i]
  ELSE LET before == Walker_random_chance(t, i, j - 1)
       IN IF t.inx[j] = i
          THEN float_add(before, float_sub(float(1), t.weights[j]))
          ELSE before

\* C23: for n non-negative weights w with a positive sum, the tables that
\* WalkerRandomSampling builds encode the normalised weights: for every key
\* i, prob[i] plus the sum of 1 - prob[j] over the j with alias i is
\* n * w[i] / sum(w); every prob[j] is in [0, 1]; the alias of j is a key
\* whenever prob[j] < 1; and the tables are built after at most n turns of
\* the loop.  The sums are compared to within half of 0.001.
C23_AliasTables ==
  call.op = "walker" =>
    /\ call.pairings <= call.tables.n
    /\ call.built =>
         \A i \in DOMAIN call.w :
           /\ float_close(Walker_random_chance(call.tables, i, call.tables.n - 1),
                          normalised(call.w)[i])
           /\ float_le(float_zero, call.tables.weights[i])
           /\ float_le(call.tables.weights[i], float(1))
           /\ float_lt(call.tables.weights[i], float(1)) =>
                call.tables.inx[i] \in DOMAIN call.w

\* the effect of one store on the trace of an id that has an entry already:
\* iff the power differs from the one recorded last or the step is the last,
\* the entry pos -> power is written and the power recorded last; otherwise
\* nothing changes
stored_by_delta(trace, last, trace_after, last_after, power, pos, is_last_step) ==
  IF power # last \/ is_last_step
  THEN /\ DOMAIN trace_after = DOMAIN trace \cup {pos}
       /\ trace_after[pos] = power
       /\ \A k \in DOMAIN trace \ {pos} : trace_after[k] = trace[k]
       /\ last_after = power
  ELSE trace_after = trace /\ last_after = last

\* C24: when a step is stored, for every charging point and every storage
\* system that has an entry already, a new entry for the step is written iff
\* the assigned power differs from the power recorded last or the step is the
\* last one; otherwise its trace and its power recorded last stay as they
\* are.  Storing the same powers for the same step once more changes
\* nothing.
C24_DeltaStore ==
  [][Len(dense_load') = Len(dense_load) + 1 =>
       LET is_last_step == time_step_pos = total_time_steps - 1
           after == [power_charging_points |-> power_charging_points',
                     last_stored_cp_power |-> last_stored_cp_power']
           after_storage == [power_storage_systems |-> power_storage_systems',
                             last_stored_storage_power |-> last_stored_storage_power']
       IN /\ \A cp \in CPs :
               cp_id[cp] \in DOMAIN power_charging_points =>
                 stored_by_delta(power_charging_points[cp_id[cp]],
                                 last_stored_cp_power[cp_id[cp]],
                                 power_charging_points'[cp_id[cp]],
                                 last_stored_cp_power'[cp_id[cp]],
                                 assign_power.cps[cp], time_step_pos, is_last_step)
          /\ \A st \in DOMAIN assign_power'.storage :
               st \in DOMAIN power_storage_systems =>
                 stored_by_delta(power_storage_systems[st], last_stored_storage_power[st],
                                 power_storage_systems'[st], last_stored_storage_power'[st],
                                 assign_power'.storage[st], time_step_pos, is_last_step)
          /\ store_power_charging_points(after, assign_power.cps, cp_id, time_step_pos,
                                         is_last_step) = after
          /\ store_power_storage_systems(after_storage, assign_power'.storage,
                                         storage_ids(scenario.infrastructure),
                                         time_step_pos, is_last_step) = after_storage
  ]_vars

\* a finished run in which the last step was written for a charging point
\* and for a storage system with the power recorded before it, a step
\* between the two entries was not written, and the charging point has an
\* entry with a power above 0
C24_Witness ==
  /\ pc = "done"
  /\ \E id \in DOMAIN power_charging_points :
       LET trace == power_charging_points[id]
           final == total_time_steps - 1
       IN /\ final \in DOMAIN trace
          /\ \E k \in DOMAIN trace :
               /\ k < final - 1
               /\ \A j \in DOMAIN trace : j <= k \/ j = final
               /\ trace[k] = trace[final]
          /\ \E k \in DOMAIN trace : float_lt(float_zero, trace[k])
  /\ \E st \in DOMAIN power_storage_systems :
       LET trace == power_storage_systems[st]
           final == total_time_steps - 1
       IN /\ final \in DOMAIN trace
          /\ Cardinality(DOMAIN trace) >= 2
          /\ Cardinality(DOMAIN trace) < total_time_steps

\* the busy charging points whose vehicle the state of DiscriminationFree
\* knows already
df_kept == {cp \in busy_cps : cp \in state_keys(state)
                              /\ state_id(state, cp) = connected_vehicle[cp].id}

\* times_charged of a busy charging point as update_state leaves it in the
\* schedule call that is being made: the counter after the call less what
\* the loop of schedule added
df_updated(cp) == times_charged(state', cp) - charged_log'[cp][Len(charged_log'[cp])]

\* a schedule call of DiscriminationFree with a state
df_step ==
  /\ pc = "schedule" /\ pc' = "charge"
  /\ scenario.scheduling_policy = "DiscriminationFree"
  /\ ~state.none

\* C25 as stated: in a schedule call of DiscriminationFree, sub is computed
\* from the minimum over the counters as they stand after departed charging
\* points are dropped, changed ones reset to 0 and new ones inserted at 0,
\* and taken off every counter; with a new or changed vehicle sub is 0 and
\* no counter is reduced.
C25_NormalisationAsStated ==
  [][df_step =>
       LET before == [cp \in busy_cps |->
                        IF cp \in df_kept THEN times_charged(state, cp) ELSE 0]
           min_tc == IF busy_cps = {} THEN 0
                     ELSE MinOfSet({before[cp] : cp \in busy_cps})
           sub == min_tc - (min_tc % W_steps)
       IN /\ state_keys(state') = busy_cps
          /\ \A cp \in busy_cps : df_updated(cp) = before[cp] - sub
          /\ busy_cps \ df_kept # {} => \A cp \in df_kept : df_updated(cp) = times_charged(state, cp)
  ]_vars

\* C25: in a schedule call of DiscriminationFree, sub = min_tc - (min_tc mod
\* W) is computed from the minimum over the counters of the state as the
\* previous call left it (the counters of charging points that are dropped
\* or reset in this call included); sub is taken off the counter of every
\* charging point that keeps its vehicle, the counters of changed and of new
\* vehicles are 0.
C25_Normalisation ==
  [][df_step =>
       LET min_tc == IF state.entries = << >> THEN 0
                     ELSE MinOfSet({state.entries[i].times_charged :
                                      i \in 1..Len(state.entries)})
           sub == min_tc - (min_tc % W_steps)
       IN /\ state_keys(state') = busy_cps
          /\ \A cp \in busy_cps :
               df_updated(cp) = IF cp \in df_kept THEN times_charged(state, cp) - sub ELSE 0
  ]_vars

\* DiscriminationFree has scheduled the last step of a run: a vehicle whose
\* counter was raised in each of the last two calls has a counter below 2,
\* so sub was taken off it, and another vehicle is new in this call
C25_Witness ==
  /\ pc = "charge"
  /\ scenario.scheduling_policy = "DiscriminationFree"
  /\ time_step_pos = total_time_steps - 1
  /\ \E cp1, cp2 \in busy_cps :
       /\ charged_log[cp1] = <<1, 1>>
       /\ times_charged(state, cp1) < 2
       /\ Len(charged_log[cp2]) = 1

\* the floored power that charges the vehicle at a busy charging point to
\* soc 1 within the step
floored_power_to_full(cp) ==
  floor(float_div(float_mul(float_sub(float(1), connected_vehicle[cp].soc),
                            Battery(connected_vehicle[cp].vehicle_type).capacity),
                  step_length_hours))

\* cp.max_hardware_power() of a busy charging point
cp_max_hardware_power(cp) ==
  ChargingPoint_max_hardware_power(scenario.infrastructure, cp, connected_vehicle[cp])

\* C26: in a schedule call of DiscriminationFree the counter of a busy
\* charging point is raised by exactly 1 iff its assigned power equals the
\* floored power that charges its vehicle to full (0 for a full vehicle) or
\* is at least cp.max_hardware_power(); below both it stays as update_state
\* left it; charging points that are not busy have no counter to raise.
C26_CountedIff ==
  [][df_step =>
       /\ state_keys(state') = busy_cps
       /\ \A cp \in busy_cps :
            LET power == assign_power'.cps[cp]
                raise == times_charged(state', cp) - df_updated(cp)
            IN IF power = floored_power_to_full(cp)
                  \/ float_le(cp_max_hardware_power(cp), power)
               THEN raise = 1 ELSE raise = 0
  ]_vars

\* DiscriminationFree has scheduled a step in which one busy charging point
\* got less than both limits and was not counted and another got its
\* max_hardware_power, less than what charges its vehicle to full, and was
\* counted
C26_Witness ==
  /\ pc = "charge"
  /\ scenario.scheduling_policy = "DiscriminationFree"
  /\ \E cp1, cp2 \in busy_cps :
       LET last(cp) == charged_log[cp][Len(charged_log[cp])]
       IN /\ float_lt(assign_power.cps[cp1], floored_power_to_full(cp1))
          /\ float_lt(assign_power.cps[cp1], cp_max_hardware_power(cp1))
          /\ last(cp1) = 0
          /\ float_lt(assign_power.cps[cp2], floored_power_to_full(cp2))
          /\ float_le(cp_max_hardware_power(cp2), assign_power.cps[cp2])
          /\ last(cp2) = 1

\* C27 as stated: sort_cps lists the charging points by (times_charged / W)
\* mod 1 descending and, where that is equal, by times_charged / W ascending;
\* with W = 1 this is ascending times_charged.
C27_SortOrderAsStated ==
  (call.op = "sort_cps" /\ call.returned) =>
    /\ SeqToSet(call.sorted) = state_keys(call.state)
    /\ Len(call.sorted) = Len(call.state.entries)
    /\ \A i, j \in 1..Len(call.sorted) :
         i < j =>
           LET a == times_charged(call.state, call.sorted[i])
               b == times_charged(call.state, call.sorted[j])
           IN \/ a % call.W > b % call.W
              \/ a % call.W = b % call.W /\ a <= b
    /\ call.W = 1 =>
         \A i, j \in 1..Len(call.sorted) :
           i < j => times_charged(call.state, call.sorted[i])
                      <= times_charged(call.state, call.sorted[j])

\* the double (times_charged / W) % 1
period_fraction(tc, W) == float_mod_1(float_div(float(tc), float(W)))

\* h hundredths is the hundredth nearest to the double x of [0, 1], the even
\* one of the two if x lies exactly halfway: (2h - 1) / 200 <= x <= (2h + 1) / 200,
\* with x = man * 2^exp written as 200 * man against (2h -+ 1) * 2^-exp
is_nearest_hundredth(x, h) ==
  IF x.man = << >> THEN h = 0
  ELSE LET scaled == big_mul(x.man, big_from_int(200))
           unit == big_shl(<<1>>, 0 - x.exp)
           below == IF h = 0 THEN 1
                    ELSE big_cmp(scaled, big_mul(unit, big_from_int(2 * h - 1)))
           above == big_cmp(big_mul(unit, big_from_int(2 * h + 1)), scaled)
       IN /\ below > 0 \/ (below = 0 /\ h % 2 = 0)
          /\ above > 0 \/ (above = 0 /\ h % 2 = 0)

\* the primary key of a counter: the hundredths its fraction of a period is
\* rounded to
rounded_fraction(tc, W) ==
  LET x == period_fraction(tc, W)
      near == (100 * (tc % W)) \div W
  IN CHOOSE h \in Max2(near - 1, 0)..Min2(near + 2, 100) : is_nearest_hundredth(x, h)

\* C27: sort_cps lists the charging points by the double (times_charged / W)
\* mod 1 rounded to the nearest hundredth, descending (a fraction halfway
\* between two hundredths goes to the side its double lies on), and, where
\* that is equal, by times_charged / W ascending; with W = 1 this is
\* ascending times_charged.
C27_SortOrder ==
  (call.op = "sort_cps" /\ call.returned) =>
    /\ SeqToSet(call.sorted) = state_keys(call.state)
    /\ Len(call.sorted) = Len(call.state.entries)
    /\ \A key \in {[cp \in state_keys(call.state) |->
                      rounded_fraction(times_charged(call.state, cp), call.W)]} :
         \A i, j \in 1..Len(call.sorted) :
           i < j =>
             LET a == call.sorted[i]
                 b == call.sorted[j]
             IN \/ key[a] > key[b]
                \/ /\ key[a] = key[b]
                   /\ times_charged(call.state, a) <= times_charged(call.state, b)
    /\ call.W = 1 =>
         \A i, j \in 1..Len(call.sorted) :
           i < j => times_charged(call.state, call.sorted[i])
                      <= times_charged(call.state, call.sorted[j])

\* sort_cps has sorted, for a period of 200 steps, a state in which the dict
\* lists a charging point with counter 3 before one with counter 2: 3 / 200
\* is halfway between 0.01 and 0.02 and its double lies below, so that both
\* have the key 0.01 and the point with counter 2 comes first
C27_Witness ==
  /\ call.op = "sort_cps" /\ call.returned
  /\ call.W = 200
  /\ \E i, j \in 1..Len(call.state.entries) :
       /\ i < j
       /\ call.state.entries[i].times_charged = 3
       /\ call.state.entries[j].times_charged = 2
       /\ \E k, l \in 1..Len(call.sorted) :
            /\ k < l
            /\ call.sorted[k] = call.state.entries[j].cp
            /\ call.sorted[l] = call.state.entries[i].cp

\* DiscriminationFree.update_state: the offset sub it subtracts
df_sub(st, W) ==
  LET tcs == {st.entries[i].times_charged : i \in 1..Len(st.entries)}
      min_times_charged == IF Len(st.entries) > 0 THEN MinOfSet(tcs) ELSE 0
  IN min_times_charged - (min_times_charged % W)

\* the state with sub subtracted from every counter
df_normalised(st, W) ==
  [none |-> FALSE,
   entries |-> [i \in 1..Len(st.entries) |->
                  [st.entries[i] EXCEPT !.times_charged = @ - df_sub(st, W)]]]

\* C28: with a fixed set of continuously connected vehicles every
\* times_charged counter stays within [0, B] for a B that depends only on W
\* and the number of charging points (here B = W * (number of CPs + 1)), and
\* subtracting sub from all counters leaves the order of sort_cps unchanged
C28_BoundedCounters ==
  (scenario.scheduling_policy = "DiscriminationFree" /\ ~state.none) =>
    /\ \A cp \in state_keys(state) :
         /\ 0 <= times_charged(state, cp)
         /\ times_charged(state, cp) <= W_steps * (Cardinality(CPs) + 1)
    /\ sort_cps(df_normalised(state, W_steps), W_steps) = sort_cps(state, W_steps)

\* the power that empties battery b to min_soc within a step, and the soc
\* after a discharge by P, as the code computes them
power_to_empty(b) ==
  float_div(float_mul(float_sub(b.soc, b.min_soc), b.capacity), FloatStepLengthHours)

soc_discharged(b, P) ==
  float_sub(b.soc, float_div(float_mul(P, FloatStepLengthHours), b.capacity))

\* C29 as stated: discharge(P, dt) fails whenever P exceeds min(max_charge_power,
\* power that empties the battery to min_soc within dt) and then leaves soc,
\* power and the soc history unchanged; when P is within that limit (and not
\* negative, which the method asserts) the soc decreases by P * dt / capacity.
C29_DischargeAsStated ==
  [][LET b == call.battery
         P == call'.power
         limit == float_min(b.max_charge_power, power_to_empty(b))
     IN (call'.calls = call.calls + 1 /\ call'.method = "discharge") =>
          IF float_lt(limit, P)
          THEN call'.raised # "none" /\ call'.battery = b
          ELSE float_le(float_zero, P) => call'.battery.soc = soc_discharged(b, P)]_vars

\* C29 amended: the same with the limit that max_discharge_power(0, dt)
\* returns, min(max_charge_power, power that empties the battery to min_soc
\* within dt) raised to 0 if negative and rounded down to three decimals.
C29_Discharge ==
  [][LET b == call.battery
         P == call'.power
         limit == floor(float_max(float_min(b.max_charge_power, power_to_empty(b)),
                                  float_zero))
     IN (call'.calls = call.calls + 1 /\ call'.method = "discharge") =>
          IF float_lt(limit, P)
          THEN call'.raised # "none" /\ call'.battery = b
          ELSE float_le(float_zero, P) => call'.battery.soc = soc_discharged(b, P)]_vars

\* C29 witness: a battery that was charged with 5.0005 kW and then discharged
\* by 2.5 kW, a power within the limit, has refused 2.5003 kW, a power above
\* the rounded limit that is not above the unrounded one
C29_Witness ==
  /\ call.op = "battery" /\ call.calls = 3
  /\ call.method = "discharge" /\ call.raised = "ValueError"
  /\ Len(call.battery.soc_time) = 2
  /\ call.battery.power = float_neg(decimal(2500))
  /\ call.power = float_div(float(25003), float(10000))
  /\ float_le(call.power,
              float_min(call.battery.max_charge_power, power_to_empty(call.battery)))
  /\ call.battery = call.before

\* the power the trace of a storage system holds for a step: the entry with
\* the largest key up to the step
recorded_power(trace, pos) ==
  trace[CHOOSE k \in DOMAIN trace : k <= pos /\ \A j \in DOMAIN trace : j <= pos => j <= k]

\* C30: in every step in which schedule returns storage power 0 for an
\* existing storage, the storage is charged with min(what the transformer has
\* left after the charging points and the preload, max_charge_power of the
\* battery, the power that fills the battery within the step); this power is
\* not negative, it is what the result records for the storage in this step,
\* and when it is above 0, preload + power of the charging points + this
\* power stays within max_power of the transformer.
C30_OpportunisticCharge ==
  [][(pc = "charge_storage" /\ assign_power.storage = <<float_zero>>) =>
       LET sb == storage[1]
           residual ==
             floor(float_max(float_sub(scenario.infrastructure.transformer,
                                       preload_and_assigned),
                             float_zero))
           power_to_full ==
             float_div(float_mul(float_sub(float(1), sb.soc), sb.capacity),
                       step_length_hours)
           power_charged ==
             float_min(float_min(power_to_full, sb.max_charge_power), residual)
       IN /\ pc' # "halted"
          /\ float_le(float_zero, power_charged)
          /\ storage'[1].soc
               = float_add(sb.soc, float_div(float_mul(power_charged, step_length_hours),
                                             sb.capacity))
          /\ assign_power'.storage = <<power_charged>>
          /\ last_stored_storage_power'[1] = power_charged
          /\ recorded_power(power_storage_systems'[1], time_step_pos) = power_charged
          /\ float_lt(float_zero, power_charged) =>
               float_le(float_add(preload_and_assigned, power_charged),
                        scenario.infrastructure.transformer)]_vars

\* C30 witness: a step has ended in which a charging point got power and the
\* storage was charged with what the transformer had left, less than
\* max_charge_power and less than what fills the battery, and the result
\* holds that power for the step
C30_Witness ==
  /\ pc = "update_queue" /\ time_step_pos > 0
  /\ storage # << >>
  /\ float_lt(float_zero, total_assigned)
  /\ float_lt(float_zero, assign_power.storage[1])
  /\ float_lt(assign_power.storage[1], storage[1].max_charge_power)
  /\ float_lt(storage[1].soc, float(1))
  /\ assign_power.storage[1]
       = float_sub(scenario.infrastructure.transformer, preload_and_assigned)
  /\ recorded_power(power_storage_systems[1], time_step_pos - 1) = assign_power.storage[1]

\* C31: when the lifecycle check of a step is about to run, every vehicle at
\* a busy charging point has been at a busy charging point in a call of
\* schedule; and update_cps gives the charging points whose vehicles have to
\* leave to the first vehicles of the queue, which are connected when
\* update_cps returns, whatever their own leaving time or soc.
C31_ScheduledBeforeChecked ==
  /\ [](pc = "update_cps" =>
          \A cp \in busy_cps : connected_vehicle[cp].id \in scheduled)
  /\ [][(pc = "update_cps" /\ within_opening_hours) =>
          LET leaving == {cp \in busy_cps :
                            must_disconnect(connected_vehicle[cp], time_step,
                                            scenario.disconnect_by_time)}
          IN \A i \in 1..Len(waiting_queue.queue) :
               i <= Cardinality(leaving) =>
                 \E cp \in leaving : /\ connected_vehicle'[cp] = waiting_queue.queue[i]
                                     /\ cp \in busy_cps']_vars

\* C31 witness: a vehicle was taken from the queue at a time step at which
\* its parking time was over already, has stayed connected through the
\* lifecycle check of that step and has been in the call of schedule
C31_Witness ==
  /\ pc = "charge"
  /\ \E cp \in busy_cps :
       /\ connected_vehicle[cp].arrival_time < time_step
       /\ connected_vehicle[cp].leaving_time <= time_step
       /\ connected_vehicle[cp].id \in scheduled
       /\ \E other \in scheduled : other < connected_vehicle[cp].id

\* C32: the entries of charging_periods are the events that schedule gave
\* a power above 0 in at least one step of the run, 'arrival' is the first
\* and 'last_charged' the last of these steps, and arrival <= last_charged
charged_steps(ce) == {p[2] : p \in {q \in powered : q[1] = ce}}

C32_ChargingPeriods ==
  /\ DOMAIN charging_periods = {p[1] : p \in powered}
  /\ \A ce \in DOMAIN charging_periods :
       /\ charging_periods[ce].arrival \in charged_steps(ce)
       /\ charging_periods[ce].last_charged \in charged_steps(ce)
       /\ \A t \in charged_steps(ce) :
            /\ charging_periods[ce].arrival <= t
            /\ t <= charging_periods[ce].last_charged
       /\ charging_periods[ce].arrival <= charging_periods[ce].last_charged

\* a finished run in which one vehicle was given power in two steps with a
\* step without power between them, and another vehicle never got any
C32_Witness ==
  /\ pc = "done"
  /\ \E ce \in DOMAIN charging_periods :
       /\ charging_periods[ce].arrival < charging_periods[ce].last_charged
       /\ \E t \in 0..time_step :
            /\ charging_periods[ce].arrival < t
            /\ t < charging_periods[ce].last_charged
            /\ t \notin charged_steps(ce)
  /\ \E ce \in scheduled : ce \notin DOMAIN charging_periods

\* the total power Uncontrolled assigned to the charging points, what
\* exceeds the max_power of the transformer and the power the storage can
\* deliver over the step
uncontrolled_total ==
  add_assigned(float_zero, call.assign_power.cps, Len(SharedInfra.cp))

uncontrolled_excess == float_sub(uncontrolled_total, SharedInfra.transformer)

uncontrolled_max_discharge ==
  max_discharge_power(call.battery, float_zero, FloatStepLengthHours)

\* C33 as stated: when Uncontrolled has scheduled a step in a tree with a
\* storage, the storage power is -min(max_discharge(0, dt), total -
\* transformer.max_power), to within half of 0.001 kW, if the total of the
\* charging points exceeds transformer.max_power and 0 otherwise; it is
\* never positive and not larger in magnitude than max_discharge(0, dt).
C33_UncontrolledStorageAsStated ==
  (call.op = "Uncontrolled.schedule" /\ call.returned) =>
     /\ IF float_lt(SharedInfra.transformer, uncontrolled_total)
        THEN float_close(call.assign_power.storage[1],
                         float_neg(float_min(uncontrolled_max_discharge,
                                             uncontrolled_excess)))
        ELSE call.assign_power.storage[1] = float_zero
     /\ float_le(call.assign_power.storage[1], float_zero)
     /\ float_le(float_neg(call.assign_power.storage[1]), uncontrolled_max_discharge)

\* C33 amended: the same with total - transformer.max_power rounded down to
\* three decimals, and then equal to the power returned.
C33_UncontrolledStorage ==
  (call.op = "Uncontrolled.schedule" /\ call.returned) =>
     /\ call.assign_power.storage[1] =
          IF float_lt(SharedInfra.transformer, uncontrolled_total)
          THEN float_neg(float_min(uncontrolled_max_discharge,
                                   floor(uncontrolled_excess)))
          ELSE float_zero
     /\ float_le(call.assign_power.storage[1], float_zero)
     /\ float_le(float_neg(call.assign_power.storage[1]), uncontrolled_max_discharge)

\* C33 witness: the charging points have got 12.0008 kW more or less, which
\* is above the transformer by a power that is no multiple of 0.001 kW, and
\* the storage, which could deliver more, is recorded with the excess
\* rounded down
C33_Witness ==
  /\ call.op = "Uncontrolled.schedule" /\ call.returned
  /\ float_lt(SharedInfra.transformer, uncontrolled_total)
  /\ floor(uncontrolled_excess) # uncontrolled_excess
  /\ call.assign_power.storage[1] = float_neg(float(2))
  /\ float_lt(float_neg(call.assign_power.storage[1]), uncontrolled_max_discharge)

\* the piecewise-linear interpolation of a weekly distribution at the time
\* of week of t, the values being those at the beginning of their intervals
weekly_interpolation(distr, t) ==
  LET num_values == Len(distr)
      minute_of_week == t % (7 * 24 * 60)
      i == (minute_of_week * num_values) \div (7 * 24 * 60)
      rest == (minute_of_week * num_values) % (7 * 24 * 60)
      y0 == distr[i + 1]
      y1 == distr[((i + 1) % num_values) + 1]
  IN [num |-> y0 * (7 * 24 * 60) + (y1 - y0) * rest, den |-> 7 * 24 * 60]

\* C34: the arrival weight, before normalisation, of the time step at time
\* T is the piecewise-linear interpolation of the weekly distribution at the
\* time of week of T, for distributions of 84 and 168 values, for first time
\* steps on and off the boundaries of their intervals, and for every
\* resolution.
C34_WeightAtTimeOfWeek ==
  (call.op = "create_vehicle_arrivals" /\ call.arrival_probability # << >>) =>
    \A k \in 1..Len(call.time_steps) :
      lowest_terms(call.unnormalised[k])
        = lowest_terms(weekly_interpolation(call.arrival_distribution,
                                            call.time_steps[k]))

\* C35: between the calls of the loop body free_cps and busy_cps are
\* disjoint, together they are all charging points of the tree, and a
\* charging point is in busy_cps exactly if it holds a vehicle; a vehicle is
\* connected only to a charging point that holds none: to a free one on
\* arrival, and in update_cps to one whose vehicle has just been
\* disconnected.
C35_FreeAndBusy ==
  /\ [](/\ free_cps \cap busy_cps = {}
        /\ free_cps \cup busy_cps = CPs
        /\ \A cp \in CPs : cp \in busy_cps <=> connected_vehicle[cp] # None)
  /\ [][\A cp \in CPs :
          (connected_vehicle'[cp] # None
             /\ connected_vehicle'[cp].id # connected_vehicle[cp].id)
          => \/ /\ pc = "arrivals"
                /\ cp \in free_cps /\ connected_vehicle[cp] = None
                /\ cp \in busy_cps' /\ cp \notin free_cps'
             \/ /\ pc = "update_cps"
                /\ cp \in busy_cps /\ cp \in busy_cps'
                /\ must_disconnect(connected_vehicle[cp], time_step,
                                   scenario.disconnect_by_time)]_vars

\* C35 witness: update_cps has left one charging point with a vehicle that
\* arrived at an earlier step and has freed another one, which had power at
\* the last step
C35_Witness ==
  /\ pc = "arrivals"
  /\ free_cps # {} /\ busy_cps # {}
  /\ \E cp \in busy_cps : connected_vehicle[cp].arrival_time < time_step
  /\ \E cp \in free_cps : float_lt(float_zero, assign_power.cps[cp])

\* the charging points whose vehicle update_cps has to disconnect now
cps_to_free ==
  {cp \in busy_cps : must_disconnect(connected_vehicle[cp], time_step,
                                     scenario.disconnect_by_time)}

\* C36: whenever the waiting queue is not empty no charging point is free;
\* update_cps gives the charging points it frees to the vehicles of the
\* queue from the head on, in the order of the queue, and only the ones
\* that are left over become free for the arrivals of the step; an arrival
\* is put in the queue only when no charging point is free.
C36_WorkConserving ==
  /\ [](Len(waiting_queue.queue) > 0 => free_cps = {})
  /\ [][(pc = "update_cps" /\ within_opening_hours) =>
          LET taken == Min2(Cardinality(cps_to_free), Len(waiting_queue.queue))
          IN /\ waiting_queue'.queue
                  = SubSeq(waiting_queue.queue, taken + 1, Len(waiting_queue.queue))
             /\ \A i \in 1..taken :
                  \E cp \in cps_to_free : connected_vehicle'[cp].id = waiting_queue.queue[i].id
             /\ Cardinality(free_cps') - Cardinality(free_cps)
                  = Cardinality(cps_to_free) - taken]_vars
  /\ [][Len(waiting_queue'.queue) > Len(waiting_queue.queue)
          => pc = "arrivals" /\ free_cps = {} /\ free_cps' = {}]_vars

\* C36 witness: the arrivals of a step are done; a vehicle that waited in
\* the queue got a charging point at this step, and another one is waiting
C36_Witness ==
  /\ pc = "schedule"
  /\ Len(waiting_queue.queue) > 0
  /\ \E cp \in busy_cps :
       /\ connected_vehicle[cp].arrival_time < time_step
       /\ connected_vehicle[cp].id \notin scheduled

\* C37: next_leave is at most the leaving_time of every event in the queue,
\* so that a step at which update_queue does not scan the queue, because
\* the time step is before next_leave, is never a step at which an event of
\* the queue has leaving_time <= the time step.
C37_NextLeaveNeverLate ==
  /\ \A i \in 1..Len(waiting_queue.queue) :
       waiting_queue.next_leave <= waiting_queue.queue[i].leaving_time
  /\ (pc = "update_queue" /\ time_step < waiting_queue.next_leave)
       => \A i \in 1..Len(waiting_queue.queue) :
            waiting_queue.queue[i].leaving_time > time_step

\* C37 witness: update_queue is about to be called with an event in the
\* queue, and next_leave is earlier than the leaving_time of every event of
\* the queue
C37_Witness ==
  /\ pc = "update_queue"
  /\ Len(waiting_queue.queue) > 0
  /\ \A i \in 1..Len(waiting_queue.queue) :
       waiting_queue.next_leave < waiting_queue.queue[i].leaving_time

\* C38: a discharge power that a policy requests from the storage is at
\* most max_discharge_power at the soc the storage has when charge_storage
\* applies it, so that StationaryBattery.discharge does not raise and the
\* run is not halted by the storage.
C38_DischargeNeverRaises ==
  [][(/\ pc = "charge_storage" /\ storage # << >>
      /\ assign_power.storage[1] # float_zero)
     => /\ float_le(float_neg(assign_power.storage[1]),
                    max_discharge_power(storage[1], float_zero, step_length_hours))
        /\ pc' # "halted"]_vars

\* C39 as stated: in disconnect-by-time mode, a vehicle of an event with a
\* parking_time above 0 is not assigned a power above 0 at a time step at or
\* after its leaving_time, whether it was connected on arrival or taken from
\* the waiting queue, and no vehicle is still connected when schedule is
\* called at a time step at or after its leaving_time.
C39_NoPowerAfterLeaving ==
  (scenario.disconnect_by_time /\ pc \in {"schedule", "charge"}) =>
    \A cp \in busy_cps :
      connected_vehicle[cp].leaving_time > connected_vehicle[cp].arrival_time =>
        /\ connected_vehicle[cp].leaving_time > time_step
        /\ ~(pc = "charge" /\ float_lt(float_zero, assign_power.cps[cp])
               /\ connected_vehicle[cp].leaving_time <= time_step)

\* C40 as stated: every charging event of the scenario's list (sorted by
\* arrival_time) whose arrival_time lies between start_date and end_date is
\* handled exactly once, so that at the end of the run handle_car_arrival,
\* which connects, enqueues or rejects its event, has been called for as
\* many events as the list holds (all its events lie in the period).
C40_EveryEventHandled ==
  (call.op = "simulate_async" /\ pc = "done") =>
    charging_event_counter = Len(call.charging_events)

====
